---------------------------- MODULE Spec2Model ----------------------------
(***************************************************************************)
(* A model of the RugplayAnalyzer analytics engine (CryptoAnalyzer) and    *)
(* of the fetch layer that feeds it.                                       *)
(*                                                                         *)
(* The module holds several specifications over one set of variables.      *)
(* Each specification drives one group of variables and keeps the other    *)
(* groups parked at a fixed value:                                         *)
(*   SpecRetry     retryWithBackoff / fetchWithRetry around one operation  *)
(*   FairSpecRetry SpecRetry with the timer and the operation scheduled    *)
(*   SpecAnalyze   one call of analyzeCoin or analyzeWithIntelligence      *)
(*   SpecInstance  two calls interleaved on one CryptoAnalyzer instance    *)
(*   SpecRSI       calculateRSI on a series of prices                      *)
(*   SpecRugPull   isRugPulled, analyzeRugPullRisk,                        *)
(*                 detectSuspiciousPatterns on a series of candles         *)
(*   SpecScore     the factor scorers, baseline and enriched               *)
(*   SpecDecision  risk level, recommendation and the final result         *)
(*   SpecServer    fetchRugplayData of the analysis endpoint               *)
(*   SpecCache     the get of the API client over the local-storage cache  *)
(*   SpecMonitor   the monitoring store and its updates in flight          *)
(*                                                                         *)
(* Numbers.  Delays and counters are integers.  Prices, ratios and scores  *)
(* are JavaScript numbers: exact fractions, NaN and the infinities, so     *)
(* that thresholds are decided exactly and a division by zero or a         *)
(* missing property behaves as it does in the code.                        *)
(***************************************************************************)
EXTENDS Integers, Sequences, FiniteSets, TLC

VARIABLES
    \* ---- group "retry": one fetchWithRetry call ----
    rOp,          \* which operation is wrapped: "raw" or "apiClient"
    rUpstream,    \* what the upstream answers while it fails
    rFailsFor,    \* number of leading invocations that fail
    rAlways,      \* TRUE: every invocation fails
    rpc,          \* position of the retryWithBackoff activation
    rAttempt,     \* the `attempt` parameter of the current activation
    rInvocations, \* how often operation() has been invoked
    rError,       \* the error caught by the current activation
    rDelays,      \* the delays waited so far, in order
    \* ---- group "analyze": calls on one CryptoAnalyzer instance ----
    aVariant,     \* the class variant of the instance: "baseline" or "retry"
    aEntry,       \* per call: the public method called, or "none"
    aPc,          \* per call: position of the call
    aFetch,       \* per call: status of each data fetch of its Promise.all
    aIntel,       \* per call: the enriched payload received, or "none"
    aVia,         \* per call: how analyzeCoin was reached
    aResult,      \* per call: what the caller has been given
    minuteData,   \* the instance field this.minuteData
    \* ---- group "rsi": one application of calculateRSI ----
    rsiPrices,    \* the closing prices passed in
    rsiPeriod,    \* the period passed in
    rsiOut,       \* the value returned
    \* ---- group "rug": one application of a rug-pull detector ----
    rugFn,            \* the function applied
    rugCandles,       \* the candlestickData passed in
    rugVolumes,       \* the volumeData of the minute snapshot
    rugHolders,       \* the holder balances passed in
    rugOut,           \* what the function returned
    \* ---- group "score": one call of a scorer ----
    scFn,             \* the scorer called
    scIn,             \* its argument
    scOut,            \* what it returned
    scThrew,          \* TRUE: it threw instead of returning
    \* ---- group "decision": risk level, recommendation, final result ----
    dFn,              \* the function called
    dIn,              \* its arguments
    dOut,             \* the sequence of the values it returned
    dNow,             \* what Date.now() returns, in days
    \* ---- group "server": one fetchRugplayData call of the endpoint ----
    fRetries,         \* the argument retries
    fI,               \* the loop variable i
    fPc,              \* "fetch", "wait" or "done"
    fSeen,            \* the answers to the requests made so far
    fResult,          \* how the call ended
    \* ---- group "cache": createApiClient(...).get over the cacheManager ----
    cNow,             \* what Date.now() returns, in minutes
    cStore,           \* localStorage: cache key -> the cached item, if any
    cPending,         \* the requests awaiting their response
    cCalls,           \* the number of get calls made
    cLast,            \* what the last step of a get call did
    cStored,          \* every cacheManager.set made so far
    \* ---- group "monitor": the monitoring store ----
    monitoredCoins,   \* the store's value: a sequence of coins
    mSaved,           \* localStorage rugplay_monitored_coins
    mInFlight,        \* symbol -> the performCoinUpdate calls awaiting get
    mWanted,          \* the symbols added and not removed since
    mLast             \* the last operation and its symbol

retryVars == <<rOp, rUpstream, rFailsFor, rAlways, rpc, rAttempt,
               rInvocations, rError, rDelays>>

analyzeVars == <<aVariant, aEntry, aPc, aFetch, aIntel, aVia, aResult,
                 minuteData>>

rsiVars == <<rsiPrices, rsiPeriod, rsiOut>>

rugVars == <<rugFn, rugCandles, rugVolumes, rugHolders, rugOut>>

scoreVars == <<scFn, scIn, scOut, scThrew>>

decisionVars == <<dFn, dIn, dOut, dNow>>

serverVars == <<fRetries, fI, fPc, fSeen, fResult>>

cacheVars == <<cNow, cStore, cPending, cCalls, cLast, cStored>>

monitorVars == <<monitoredCoins, mSaved, mInFlight, mWanted, mLast>>

vars == <<retryVars, analyzeVars, rsiVars, rugVars, scoreVars, decisionVars,
          serverVars, cacheVars, monitorVars>>

-----------------------------------------------------------------------------
(* Generic helpers *)

Min(a, b) == IF a <= b THEN a ELSE b

Max(a, b) == IF a >= b THEN a ELSE b

RECURSIVE Pow(_, _)
Pow(b, e) == IF e <= 0 THEN 1 ELSE b * Pow(b, e - 1)

Abs(x) == IF x < 0 THEN -x ELSE x

RECURSIVE GCD(_, _)
GCD(a, b) == IF b = 0 THEN a ELSE GCD(b, a % b)

LCM(a, b) == (a \div GCD(a, b)) * b

\* reduce((sum, x) => sum + x, 0) over an array of integers
RECURSIVE Sum(_)
Sum(s) == IF Len(s) = 0 THEN 0 ELSE Head(s) + Sum(Tail(s))

\* Array.prototype.slice(-n), n > 0
LastN(s, n) == IF Len(s) <= n THEN s ELSE SubSeq(s, Len(s) - n + 1, Len(s))

\* Array.prototype.slice(0, n)
FirstN(s, n) == IF Len(s) <= n THEN s ELSE SubSeq(s, 1, n)

-----------------------------------------------------------------------------
(* JavaScript numbers.  A number is finite (an exact fraction n/d, d > 0,  *)
(* in lowest terms), NaN, or an infinity (n is its sign).  undefined used  *)
(* in arithmetic is NaN.  Rounding and the sign of zero are not modelled.  *)

Fin(n, d) ==
    LET g == GCD(Abs(n), Abs(d))
        s == IF d < 0 THEN -1 ELSE 1
    IN  [k |-> "fin", n |-> (s * n) \div g, d |-> (s * d) \div g]

Num(i) == [k |-> "fin", n |-> i, d |-> 1]

NaN == [k |-> "nan", n |-> 0, d |-> 1]

Infinity(s) == [k |-> "inf", n |-> s, d |-> 1]

IsNaN(x) == x.k = "nan"

Sgn(x) == IF x.n > 0 THEN 1 ELSE IF x.n < 0 THEN -1 ELSE 0

Neg(x) == [x EXCEPT !.n = -x.n]

JsAbs(x) == [x EXCEPT !.n = Abs(x.n)]

Add(x, y) ==
    IF IsNaN(x) \/ IsNaN(y) THEN NaN
    ELSE IF x.k = "inf" /\ y.k = "inf" THEN (IF x.n = y.n THEN x ELSE NaN)
    ELSE IF x.k = "inf" THEN x
    ELSE IF y.k = "inf" THEN y
    ELSE LET d == LCM(x.d, y.d)
         IN  Fin(x.n * (d \div x.d) + y.n * (d \div y.d), d)

Sub(x, y) == Add(x, Neg(y))

Mul(x, y) ==
    IF IsNaN(x) \/ IsNaN(y) THEN NaN
    ELSE IF x.k = "inf" \/ y.k = "inf"
         THEN (IF Sgn(x) = 0 \/ Sgn(y) = 0 THEN NaN
               ELSE Infinity(Sgn(x) * Sgn(y)))
    ELSE Fin(x.n * y.n, x.d * y.d)

Div(x, y) ==
    IF IsNaN(x) \/ IsNaN(y) THEN NaN
    ELSE IF y.k = "inf" THEN (IF x.k = "inf" THEN NaN ELSE Num(0))
    ELSE IF x.k = "inf" THEN Infinity(IF Sgn(y) < 0 THEN -x.n ELSE x.n)
    ELSE IF y.n = 0 THEN (IF x.n = 0 THEN NaN ELSE Infinity(Sgn(x)))
    ELSE Fin(x.n * y.d, x.d * y.n)

\* x > y; every comparison with NaN is false
Gt(x, y) ==
    IF IsNaN(x) \/ IsNaN(y) THEN FALSE
    ELSE IF x.k = "inf" THEN x.n > 0 /\ ~(y.k = "inf" /\ y.n > 0)
    ELSE IF y.k = "inf" THEN y.n < 0
    ELSE x.n * y.d > y.n * x.d

Lt(x, y) == Gt(y, x)

Ge(x, y) == ~IsNaN(x) /\ ~IsNaN(y) /\ ~Gt(y, x)

Le(x, y) == Ge(y, x)

\* x === y
StrictEq(x, y) == ~IsNaN(x) /\ ~IsNaN(y) /\ x = y

\* Math.min(x, y) and Math.max(x, y)
JsMin(x, y) == IF IsNaN(x) \/ IsNaN(y) THEN NaN ELSE IF Lt(y, x) THEN y ELSE x

JsMax(x, y) == IF IsNaN(x) \/ IsNaN(y) THEN NaN ELSE IF Gt(y, x) THEN y ELSE x

\* Math.max(...s) and Math.min(...s)
RECURSIVE MathMax(_)
MathMax(s) ==
    IF Len(s) = 0 THEN Infinity(-1) ELSE JsMax(Head(s), MathMax(Tail(s)))

RECURSIVE MathMin(_)
MathMin(s) ==
    IF Len(s) = 0 THEN Infinity(1) ELSE JsMin(Head(s), MathMin(Tail(s)))

\* reduce((a, b) => a + b, 0) over an array of numbers
RECURSIVE SumNum(_)
SumNum(s) == IF Len(s) = 0 THEN Num(0) ELSE Add(Head(s), SumNum(Tail(s)))

\* Math.max(0, Math.min(100, x))
Clamp(x) == JsMax(Num(0), JsMin(Num(100), x))

-----------------------------------------------------------------------------
(* Group "retry": CryptoAnalyzer.retryWithBackoff and fetchWithRetry *)

\* retryConfig
maxRetries == 3

initialDelay == 1000

maxDelay == 10000

backoffFactor == 2

\* Largest number of leading failures of a flaky operation.
MaxFailures == 5

\* HTTP statuses the upstream may answer with.
ClientStatuses == {400, 401, 404, 429}

ServerStatuses == {500, 502, 503, 599}

\* What the upstream does while it fails: an HTTP answer with a status, or a
\* failure of the transport ("network", "timeout") that has no status.
UpstreamFailures ==
    [kind : {"http"}, status : ClientStatuses \cup ServerStatuses]
        \cup [kind : {"network", "timeout"}, status : {0}]

Http(s) == [kind |-> "http", status |-> s]

IsServerClass(u) == u.kind = "http" /\ u.status >= 500 /\ u.status <= 599

IsClientClass(u) == u.kind = "http" /\ u.status >= 400 /\ u.status <= 499

IsTransport(u) == u.kind \in {"network", "timeout"}

\* The error object an operation throws: whether it has a `response` field
\* and, if so, that response's status.
NoError == [thrown |-> FALSE, hasResponse |-> FALSE, status |-> 0]

\* A raw operation throws an error that carries the HTTP response, if any.
RawOperationError(u) ==
    [thrown |-> TRUE, hasResponse |-> (u.kind = "http"),
     status |-> IF u.kind = "http" THEN u.status ELSE 0]

\* createApiClient.get: a non-OK response is turned into `new Error(message)`,
\* a failed fetch rejects with the transport's own error; neither carries a
\* `response` field.
ApiClientGetError(u) == [thrown |-> TRUE, hasResponse |-> FALSE, status |-> 0]

ThrownError(op, u) ==
    IF op = "raw" THEN RawOperationError(u) ELSE ApiClientGetError(u)

\* const isServerError = error?.response?.status === 500;
IsServerError(err) == err.hasResponse /\ err.status = 500

ShouldRethrowMutant(err, attempt) ==
    ~IsServerError(err) \/ attempt >= maxRetries

\* if (!isServerError || attempt > this.retryConfig.maxRetries) throw error;
ShouldRethrow(err, attempt) ==
    ~IsServerError(err) \/ attempt > maxRetries

BackoffDelayMutant(attempt) ==
    Min(initialDelay * Pow(backoffFactor, attempt), maxDelay)

\* Math.min(initialDelay * Math.pow(backoffFactor, attempt - 1), maxDelay)
BackoffDelay(attempt) ==
    Min(initialDelay * Pow(backoffFactor, attempt - 1), maxDelay)

\* Does the k-th invocation of the operation fail?
OperationFails(k) == rAlways \/ k <= rFailsFor

RetryInit ==
    /\ rOp \in {"raw", "apiClient"}
    /\ rUpstream \in UpstreamFailures
    /\ rFailsFor \in 0..MaxFailures
    /\ rAlways \in BOOLEAN
    /\ (rAlways => rFailsFor = 0)
    /\ rpc = "call"
    /\ rAttempt = 1
    /\ rInvocations = 0
    /\ rError = NoError
    /\ rDelays = <<>>

RetryParked ==
    /\ rOp = "raw"
    /\ rUpstream = Http(500)
    /\ rFailsFor = 0
    /\ rAlways = FALSE
    /\ rpc = "parked"
    /\ rAttempt = 1
    /\ rInvocations = 0
    /\ rError = NoError
    /\ rDelays = <<>>

\* try { return await operation(); }
RetryInvoke ==
    /\ rpc = "call"
    /\ rInvocations' = rInvocations + 1
    /\ IF OperationFails(rInvocations + 1)
       THEN /\ rError' = ThrownError(rOp, rUpstream)
            /\ rpc' = "caught"
       ELSE /\ rError' = NoError
            /\ rpc' = "resolved"
    /\ UNCHANGED <<rOp, rUpstream, rFailsFor, rAlways, rAttempt, rDelays>>

\* catch (error) { ... throw error; }
RetryRethrow ==
    /\ rpc = "caught"
    /\ ShouldRethrow(rError, rAttempt)
    /\ rpc' = "rejected"
    /\ UNCHANGED <<rOp, rUpstream, rFailsFor, rAlways, rAttempt,
                   rInvocations, rError, rDelays>>

\* catch (error) { ... const delay = ...; await new Promise(setTimeout(delay)) }
RetrySleep ==
    /\ rpc = "caught"
    /\ ~ShouldRethrow(rError, rAttempt)
    /\ rDelays' = Append(rDelays, BackoffDelay(rAttempt))
    /\ rpc' = "sleep"
    /\ UNCHANGED <<rOp, rUpstream, rFailsFor, rAlways, rAttempt,
                   rInvocations, rError>>

\* return this.retryWithBackoff(operation, endpoint, attempt + 1);
RetryAgain ==
    /\ rpc = "sleep"
    /\ rAttempt' = rAttempt + 1
    /\ rError' = NoError
    /\ rpc' = "call"
    /\ UNCHANGED <<rOp, rUpstream, rFailsFor, rAlways, rInvocations, rDelays>>

-----------------------------------------------------------------------------
(* Group "analyze": analyzeCoin, analyzeWithIntelligence and             *)
(* processIntelligenceData, called on one shared CryptoAnalyzer instance. *)

\* A call is named by the symbol it analyzes.
CallIds == {"AAA", "BBB"}

\* The data fetches analyzeCoin hands to Promise.all.
RetryCoinFetches == {"coin1m", "coin1h", "coin1d", "holders", "top", "market"}

BaselineCoinFetches == RetryCoinFetches \cup {"hopium"}

\* The data fetches processIntelligenceData hands to Promise.all.
IntelligenceFetches == {"coin1m", "holders"}

AllFetches == BaselineCoinFetches

CoinFetches(variant) ==
    IF variant = "baseline" THEN BaselineCoinFetches ELSE RetryCoinFetches

\* private minuteData = { coin: {...}, candlestickData: [], ... }
InitialMinuteData == "initial"

NoResult == [kind |-> "none", origin |-> "none", basis |-> {}, errors |-> 0]

NoFetches == [f \in AllFetches |-> "idle"]

IssueFetchesMutant(names) ==
    [f \in AllFetches |->
        IF f \in names /\ f = "coin1m" THEN "pending" ELSE "idle"]

\* Promise.all([...]): every element of the array is started before the
\* await.
IssueFetches(names) ==
    [f \in AllFetches |-> IF f \in names THEN "pending" ELSE "idle"]

Issued(fs) == {f \in AllFetches : fs[f] # "idle"}

Fulfilled(fs) == {f \in AllFetches : fs[f] = "ok"}

JoinFulfilledMutant(fs) == Fulfilled(fs) # {}

\* Promise.all fulfils when every element has fulfilled.
JoinFulfilled(fs) == \A f \in Issued(fs) : fs[f] = "ok"

\* Promise.all rejects with the first rejection.
JoinRejected(fs) == \E f \in Issued(fs) : fs[f] = "failed"

\* The payloads `await intelligenceResponse.json()` can produce:
\*   "full"       every section the analyzer reads is present
\*   "simplified" tradingIntelligence.entryExit has no currentPosition and
\*                marketPsychology no sellPressure
\*   "foreign"    a JSON document without riskAssessment
IntelPayloads == {"full", "simplified", "foreign"}

\* The synchronous part of processIntelligenceData after the join:
\* createEnhancedRugPullAnalysis reads data.riskAssessment.overallRiskScore,
\* generateIntelligentSummary calls entryExit.currentPosition.replace(...).
ProcessingThrows(payload) == payload \in {"simplified", "foreign"}

AnalyzeInit ==
    /\ aVariant \in {"baseline", "retry"}
    /\ aEntry \in [CallIds -> {"none", "analyzeCoin", "analyzeWithIntelligence"}]
    /\ \A c \in CallIds :
          aVariant = "baseline" => aEntry[c] # "analyzeWithIntelligence"
    /\ aPc = [c \in CallIds |-> IF aEntry[c] = "none" THEN "idle" ELSE "start"]
    /\ aFetch = [c \in CallIds |-> NoFetches]
    /\ aIntel = [c \in CallIds |-> "none"]
    /\ aVia = [c \in CallIds |-> "none"]
    /\ aResult = [c \in CallIds |-> NoResult]
    /\ minuteData = InitialMinuteData

AnalyzeParked ==
    /\ aVariant = "retry"
    /\ aEntry = [c \in CallIds |-> "none"]
    /\ aPc = [c \in CallIds |-> "idle"]
    /\ aFetch = [c \in CallIds |-> NoFetches]
    /\ aIntel = [c \in CallIds |-> "none"]
    /\ aVia = [c \in CallIds |-> "none"]
    /\ aResult = [c \in CallIds |-> NoResult]
    /\ minuteData = InitialMinuteData

\* The caller is given an error.
Reject(c, origin) ==
    /\ aPc' = [aPc EXCEPT ![c] = "rejected"]
    /\ aResult' = [aResult EXCEPT ![c] =
                      [kind |-> "error", origin |-> origin, basis |-> {},
                       errors |-> aResult[c].errors + 1]]

\* analyzeCoin(coinSymbol): the Promise.all of the data fetches is started.
EnterAnalyzeCoin(c, via) ==
    /\ aPc' = [aPc EXCEPT ![c] = "coinJoin"]
    /\ aFetch' = [aFetch EXCEPT ![c] = IssueFetches(CoinFetches(aVariant))]
    /\ aVia' = [aVia EXCEPT ![c] = via]

\* async analyzeCoin(coinSymbol, forceRefresh)
CallAnalyzeCoin(c) ==
    /\ aPc[c] = "start"
    /\ aEntry[c] = "analyzeCoin"
    /\ EnterAnalyzeCoin(c, "direct")
    /\ UNCHANGED <<aVariant, aEntry, aIntel, aResult, minuteData>>

\* async analyzeWithIntelligence: await fetch(`/api/v1/analysis/${symbol}`)
CallAnalyzeWithIntelligence(c) ==
    /\ aPc[c] = "start"
    /\ aEntry[c] = "analyzeWithIntelligence"
    /\ aPc' = [aPc EXCEPT ![c] = "intelFetch"]
    /\ UNCHANGED <<aVariant, aEntry, aFetch, aIntel, aVia, aResult, minuteData>>

\* The intelligence fetch settles: an OK response, a non-OK response
\* (`return this.analyzeCoin(...)`) or a rejection (catch: analyzeCoin).
IntelligenceResponse(c) ==
    /\ aPc[c] = "intelFetch"
    /\ \E r \in {"ok", "notOk", "throws"} :
          IF r = "ok"
          THEN /\ aPc' = [aPc EXCEPT ![c] = "intelJson"]
               /\ UNCHANGED <<aFetch, aVia>>
          ELSE EnterAnalyzeCoin(c, "fallback")
    /\ UNCHANGED <<aVariant, aEntry, aIntel, aResult, minuteData>>

\* await intelligenceResponse.json() settles: a payload, with which
\* processIntelligenceData starts its Promise.all, or a parse error, which
\* the catch clause turns into analyzeCoin.
IntelligenceJson(c) ==
    /\ aPc[c] = "intelJson"
    /\ \/ \E p \in IntelPayloads :
             /\ aIntel' = [aIntel EXCEPT ![c] = p]
             /\ aPc' = [aPc EXCEPT ![c] = "procJoin"]
             /\ aFetch' = [aFetch EXCEPT ![c] = IssueFetches(IntelligenceFetches)]
             /\ aVia' = [aVia EXCEPT ![c] = "enriched"]
       \/ /\ EnterAnalyzeCoin(c, "fallback")
          /\ UNCHANGED aIntel
    /\ UNCHANGED <<aVariant, aEntry, aResult, minuteData>>

\* A call awaits the Promise.all of its data fetches.
AwaitsJoin(c) == aPc[c] \in {"coinJoin", "procJoin"}

\* One data fetch of a call fails for good while the call awaits its
\* Promise.all: the join rejects at once.  analyzeCoin logs and rethrows.
\* processIntelligenceData rejects, and with it analyzeWithIntelligence:
\* `return this.processIntelligenceData(...)` hands the promise on without
\* awaiting it, so the catch clause of analyzeWithIntelligence never sees the
\* rejection.
\* (A fetch that settles after the join has settled has no continuation and
\* changes no state.)
FetchFails(c, f) ==
    /\ AwaitsJoin(c)
    /\ aFetch[c][f] = "pending"
    /\ aFetch' = [aFetch EXCEPT ![c][f] = "failed"]
    /\ Reject(c, IF aPc[c] = "coinJoin" THEN "baselineFetch"
                                        ELSE "enrichedFetch")
    /\ UNCHANGED <<aVariant, aEntry, aIntel, aVia, minuteData>>

\* One data fetch of a call succeeds while the call awaits its Promise.all.
\* If it was the last one, the rest of the method runs without a further
\* await: `this.minuteData = minuteData`, the scoring, the return.
FetchSucceeds(c, f) ==
    /\ AwaitsJoin(c)
    /\ aFetch[c][f] = "pending"
    /\ LET fs == [aFetch[c] EXCEPT ![f] = "ok"] IN
       /\ aFetch' = [aFetch EXCEPT ![c] = fs]
       /\ IF ~JoinFulfilled(fs)
          THEN UNCHANGED <<aPc, aResult, minuteData>>
          ELSE /\ minuteData' = c
               /\ IF aPc[c] = "procJoin" /\ ProcessingThrows(aIntel[c])
                  THEN Reject(c, "enrichedProcessing")
                  ELSE /\ aPc' = [aPc EXCEPT ![c] = "returned"]
                       /\ aResult' = [aResult EXCEPT ![c] =
                              [kind |-> IF aPc[c] = "procJoin"
                                        THEN "enriched" ELSE "baseline",
                               origin |-> "none",
                               basis |-> Fulfilled(fs), errors |-> 0]]
    /\ UNCHANGED <<aVariant, aEntry, aIntel, aVia>>

-----------------------------------------------------------------------------
(* Group "rsi": CryptoAnalyzer.calculateRSI *)

\* period: number = 14
DefaultPeriod == 14

MaxRsiLen == 5

MaxRsiPrice == 3

MaxRsiPeriod == 3

\* every short series, for the short periods
ShortPrices == UNION {[1..n -> 1..MaxRsiPrice] : n \in 0..MaxRsiLen}

\* series around DefaultPeriod + 1 points: rising, falling, alternating,
\* rising with one dip
PatternPrices ==
    UNION {
        {[i \in 1..n |-> i], [i \in 1..n |-> n + 1 - i]}
        \cup {[i \in 1..n |-> IF i % 2 = 0 THEN z ELSE 1] : z \in 1..MaxRsiPrice}
        \cup {[i \in 1..n |-> IF i = z THEN 1 ELSE i + 1] : z \in 2..n}
      : n \in (DefaultPeriod - 1)..(DefaultPeriod + 2)}

NoRsi == [done |-> FALSE, value |-> Num(0)]

calculateRSIMutant(prices, period) ==
    IF Len(prices) < period THEN Num(50)
    ELSE LET change(i) == prices[i + 1] - prices[i]
             gains  == [i \in 1..(Len(prices) - 1) |->
                           IF change(i) > 0 THEN change(i) ELSE 0]
             losses == [i \in 1..(Len(prices) - 1) |->
                           IF change(i) < 0 THEN -change(i) ELSE 0]
             avgGain == Div(Num(Sum(LastN(gains, period))), Num(period))
             avgLoss == Div(Num(Sum(LastN(losses, period))), Num(period))
         IN  IF StrictEq(avgLoss, Num(0)) THEN Num(100)
             ELSE LET rs == Div(avgGain, avgLoss)
                  IN  Sub(Num(100), Div(Num(100), Add(Num(1), rs)))

calculateRSI(prices, period) ==
    IF Len(prices) < period + 1 THEN Num(50)
    ELSE LET change(i) == prices[i + 1] - prices[i]
             gains  == [i \in 1..(Len(prices) - 1) |->
                           IF change(i) > 0 THEN change(i) ELSE 0]
             losses == [i \in 1..(Len(prices) - 1) |->
                           IF change(i) < 0 THEN -change(i) ELSE 0]
             avgGain == Div(Num(Sum(LastN(gains, period))), Num(period))
             avgLoss == Div(Num(Sum(LastN(losses, period))), Num(period))
         IN  IF StrictEq(avgLoss, Num(0)) THEN Num(100)
             ELSE LET rs == Div(avgGain, avgLoss)
                  IN  Sub(Num(100), Div(Num(100), Add(Num(1), rs)))

RsiInit ==
    /\ \/ rsiPeriod \in 1..MaxRsiPeriod /\ rsiPrices \in ShortPrices
       \/ rsiPeriod = DefaultPeriod /\ rsiPrices \in PatternPrices
    /\ rsiOut = NoRsi

RsiParked ==
    /\ rsiPeriod = 0
    /\ rsiPrices = <<>>
    /\ rsiOut = NoRsi

CalculateRSI ==
    /\ ~rsiOut.done
    /\ rsiPeriod > 0
    /\ rsiOut' = [done |-> TRUE, value |-> calculateRSI(rsiPrices, rsiPeriod)]
    /\ UNCHANGED <<rsiPrices, rsiPeriod>>

-----------------------------------------------------------------------------
(* Group "rug": isRugPulled, analyzeRugPullRisk, detectSuspiciousPatterns. *)
(* A candle is [high, close, volume]; prices are positive integers (in     *)
(* hundredths), volumes are naturals; volumeData is the array of volumes   *)
(* and holders the array of balances, in the order received.               *)

Candle(h, c, v) == [high |-> h, close |-> c, volume |-> v]

\* ((cur - prev) / prev) * 100
PercentChange(cur, prev) ==
    Mul(Div(Sub(Num(cur), Num(prev)), Num(prev)), Num(100))

\* candles.map((c, i) => i === 0 ? 0 : percent change of the close)
PriceChanges(candles) ==
    [i \in 1..Len(candles) |->
        IF i = 1 THEN Num(0)
        ELSE PercentChange(candles[i].close, candles[i - 1].close)]

\* reduce(sum) / length
Average(values) == Div(Num(Sum(values)), Num(Len(values)))

Volumes(candles) == [i \in 1..Len(candles) |-> candles[i].volume]

Closes(candles) == [i \in 1..Len(candles) |-> candles[i].close]

isRugPulledMutant(candlestickData, volumeData) ==
    LET recentCandles == LastN(candlestickData, 30)
    IN  IF Len(recentCandles) < 2 THEN FALSE
        ELSE
        LET priceDrops == PriceChanges(recentCandles)
            allTimeHigh ==
                MathMax([i \in 1..Len(candlestickData) |->
                            Num(candlestickData[i].high)])
            currentPrice == Num(recentCandles[Len(recentCandles)].close)
            dropFromATH ==
                Mul(Div(Sub(allTimeHigh, currentPrice), allTimeHigh), Num(100))
            recentVolumes == LastN(volumeData, 5)
            volumeAvg == Average(volumeData)
            recentVolumeAvg == Average(recentVolumes)
            volumeDrop ==
                Mul(Div(Sub(volumeAvg, recentVolumeAvg), volumeAvg), Num(100))
            lastCandles == LastN(recentCandles, 6)
            recentPriceChanges ==
                [i \in 1..Len(lastCandles) |->
                    IF i = 1 THEN Num(0)
                    ELSE JsAbs(PercentChange(lastCandles[i].close,
                                             lastCandles[i - 1].close))]
            isFlatlining ==
                \A i \in 1..Len(recentPriceChanges) :
                    Lt(recentPriceChanges[i], Fin(1, 10))
            hasMassiveDrop == Gt(dropFromATH, Num(90))
            hasVolumeDeath ==
                StrictEq(recentVolumeAvg, Num(0)) \/ Gt(volumeDrop, Num(95))
            lastDrops == LastN(priceDrops, 5)
            hasNoRecovery ==
                \A i \in 1..Len(lastDrops) : Le(lastDrops[i], Fin(1, 10))
        IN  \/ hasMassiveDrop /\ hasVolumeDeath
            \/ Gt(dropFromATH, Num(70)) /\ hasNoRecovery /\ isFlatlining
            \/ StrictEq(recentVolumeAvg, Num(0)) /\ isFlatlining

isRugPulled(candlestickData, volumeData) ==
    LET recentCandles == LastN(candlestickData, 30)
    IN  IF Len(recentCandles) < 2 THEN FALSE
        ELSE
        LET priceDrops == PriceChanges(recentCandles)
            allTimeHigh ==
                MathMax([i \in 1..Len(candlestickData) |->
                            Num(candlestickData[i].high)])
            currentPrice == Num(recentCandles[Len(recentCandles)].close)
            dropFromATH ==
                Mul(Div(Sub(allTimeHigh, currentPrice), allTimeHigh), Num(100))
            recentVolumes == LastN(volumeData, 5)
            volumeAvg == Average(volumeData)
            recentVolumeAvg == Average(recentVolumes)
            volumeDrop ==
                Mul(Div(Sub(volumeAvg, recentVolumeAvg), volumeAvg), Num(100))
            lastCandles == LastN(recentCandles, 5)
            recentPriceChanges ==
                [i \in 1..Len(lastCandles) |->
                    IF i = 1 THEN Num(0)
                    ELSE JsAbs(PercentChange(lastCandles[i].close,
                                             lastCandles[i - 1].close))]
            isFlatlining ==
                \A i \in 1..Len(recentPriceChanges) :
                    Lt(recentPriceChanges[i], Fin(1, 10))
            hasMassiveDrop == Gt(dropFromATH, Num(90))
            hasVolumeDeath ==
                StrictEq(recentVolumeAvg, Num(0)) \/ Gt(volumeDrop, Num(95))
            lastDrops == LastN(priceDrops, 5)
            hasNoRecovery ==
                \A i \in 1..Len(lastDrops) : Le(lastDrops[i], Fin(1, 10))
        IN  \/ hasMassiveDrop /\ hasVolumeDeath
            \/ Gt(dropFromATH, Num(70)) /\ hasNoRecovery /\ isFlatlining
            \/ StrictEq(recentVolumeAvg, Num(0)) /\ isFlatlining

\* calculateVolatility(prices) > t for t >= 0, decided on the variance:
\* sqrt(variance) > t exactly when variance > t * t
VolatilityGt(prices, t) ==
    IF Len(prices) < 2 THEN Gt(Num(0), Num(t))
    ELSE LET returns == [i \in 1..(Len(prices) - 1) |->
                            PercentChange(prices[i + 1], prices[i])]
             mean == Div(SumNum(returns), Num(Len(returns)))
             squares == [i \in 1..Len(returns) |->
                            Mul(Sub(returns[i], mean), Sub(returns[i], mean))]
             variance == Div(SumNum(squares), Num(Len(returns)))
         IN  Gt(variance, Num(t * t))

NoPhase ==
    [pumpPhase |-> FALSE, dumpPhase |-> FALSE,
     totalPump |-> Num(0), totalDump |-> Num(0)]

\* the loop for (let i = 1; i < priceChanges.length; i++), from index i on
RECURSIVE PumpDumpScan(_, _, _)
PumpDumpScan(priceChanges, i, st) ==
    IF i > Len(priceChanges) THEN st
    ELSE LET ch == priceChanges[i]
             next ==
                 IF ~st.pumpPhase /\ Gt(ch, Num(10))
                 THEN [st EXCEPT !.pumpPhase = TRUE, !.totalPump = ch]
                 ELSE IF st.pumpPhase /\ Gt(ch, Num(5))
                 THEN [st EXCEPT !.totalPump = Add(@, ch)]
                 ELSE IF st.pumpPhase /\ Lt(ch, Num(-10))
                 THEN [st EXCEPT !.dumpPhase = TRUE, !.totalDump = ch]
                 ELSE IF st.dumpPhase /\ Lt(ch, Num(-5))
                 THEN [st EXCEPT !.totalDump = Add(@, ch)]
                 ELSE st
         IN  PumpDumpScan(priceChanges, i + 1, next)

\* the indicator (name and weight) of the price pattern, if any
PriceIndicators(recentPrices) ==
    IF Len(recentPrices) = 0 THEN <<>>
    ELSE LET priceChanges == PriceChanges(recentPrices)
             maxPump == MathMax(priceChanges)
             maxDump == MathMin(priceChanges)
             scan == PumpDumpScan(priceChanges, 2, NoPhase)
             pattern ==
                 IF /\ scan.pumpPhase /\ scan.dumpPhase
                    /\ Gt(scan.totalPump, Num(50))
                    /\ Lt(scan.totalDump, Num(-30))
                 THEN <<[name |-> "Pump and Dump", weight |-> 80]>>
                 ELSE IF Gt(maxPump, Num(100))
                 THEN <<[name |-> "Suspicious Pump", weight |-> 40]>>
                 ELSE IF Lt(maxDump, Num(-30))
                 THEN <<[name |-> "Price Drop", weight |-> 60]>>
                 ELSE <<>>
             volatility ==
                 IF VolatilityGt(Closes(recentPrices), 50)
                 THEN <<[name |-> "Volatility", weight |-> 30]>>
                 ELSE <<>>
         IN  pattern \o volatility

VolumeIndicators(priceHistory) ==
    LET volumes == Volumes(priceHistory)
        recentVolumes == LastN(volumes, 10)
        volumeAvg == Average(volumes)
        recentVolumeAvg == Average(recentVolumes)
        volumeSpikes ==
            [i \in 1..Len(recentVolumes) |->
                IF i = 1 THEN Num(0)
                ELSE Mul(Sub(Div(Num(recentVolumes[i]),
                                 Num(recentVolumes[i - 1])), Num(1)),
                         Num(100))]
        maxVolumeSpike == MathMax(volumeSpikes)
        volumeTrend == Mul(Sub(Div(recentVolumeAvg, volumeAvg), Num(1)), Num(100))
    IN  IF Gt(maxVolumeSpike, Num(500)) /\ Lt(volumeTrend, Num(-70))
        THEN <<[name |-> "Volume Pattern", weight |-> 70]>>
        ELSE IF StrictEq(recentVolumeAvg, Num(0))
        THEN <<[name |-> "Volume", weight |-> 60]>>
        ELSE <<>>

\* (balance of the first n holders / total balance) * 100
TopHoldersPercentage(holders, n) ==
    Mul(Div(Num(Sum(FirstN(holders, n))), Num(Sum(holders))), Num(100))

ConcentrationIndicators(holders) ==
    LET topHoldersPercentage == TopHoldersPercentage(holders, 5)
    IN  IF Gt(topHoldersPercentage, Num(90))
        THEN <<[name |-> "Concentration", weight |-> 70]>>
        ELSE IF Gt(topHoldersPercentage, Num(70))
        THEN <<[name |-> "Concentration", weight |-> 40]>>
        ELSE <<>>

RugPullRiskLevel(overallRisk) ==
    IF overallRisk >= 70 THEN "critical"
    ELSE IF overallRisk >= 50 THEN "high"
    ELSE IF overallRisk >= 30 THEN "medium"
    ELSE "low"

RugPullSuggestedAction(riskLevel) ==
    CASE riskLevel = "critical" -> "Trading not recommended"
      [] riskLevel = "high" -> "Exercise extreme caution"
      [] riskLevel = "medium" -> "Monitor closely"
      [] OTHER -> "Standard trading risks apply"

\* the RugPullAnalysis returned for the indicators emitted and their capped sum
RugPullAnalysis(indicators, overallRisk) ==
    [overallRisk |-> overallRisk,
     riskLevel |-> RugPullRiskLevel(overallRisk),
     indicators |-> [i \in 1..Len(indicators) |-> indicators[i].name],
     suggestedAction |-> RugPullSuggestedAction(RugPullRiskLevel(overallRisk))]

CappedRiskMutant(indicators) ==
    Sum([i \in 1..Len(indicators) |-> indicators[i].weight])

\* overallRisk = Math.min(100, overallRisk) over the weights added
CappedRisk(indicators) ==
    Min(100, Sum([i \in 1..Len(indicators) |-> indicators[i].weight]))

RugPullAnalysisOf(indicators) ==
    RugPullAnalysis(indicators, CappedRisk(indicators))

\* the result built when the dead-coin check is false
AccumulatedRugPullRisk(priceHistory, holders) ==
    RugPullAnalysisOf(PriceIndicators(LastN(priceHistory, 30))
                      \o VolumeIndicators(priceHistory)
                      \o ConcentrationIndicators(holders))

\* the result returned when the dead-coin check is true
DeadCoinResult ==
    [overallRisk |-> 100,
     riskLevel |-> "critical",
     indicators |-> <<"Rug Pull">>,
     suggestedAction |-> "Trading not recommended"]

analyzeRugPullRiskMutant(priceHistory, holders) ==
    IF /\ Len(ConcentrationIndicators(holders)) = 0
       /\ isRugPulled(priceHistory, Volumes(priceHistory))
    THEN DeadCoinResult
    ELSE AccumulatedRugPullRisk(priceHistory, holders)

analyzeRugPullRisk(priceHistory, holders) ==
    IF isRugPulled(priceHistory, Volumes(priceHistory))
    THEN DeadCoinResult
    ELSE AccumulatedRugPullRisk(priceHistory, holders)

\* analyzeHolderBehavior(holders).some(h => h.riskLevel === 'extreme')
HasExtremeHolder(holders) ==
    \E i \in 1..Len(holders) :
        Gt(Mul(Div(Num(holders[i]), Num(Sum(holders))), Num(100)), Num(80))

SuspiciousPatternsMutant(found) ==
    [threw |-> FALSE,
     riskLevel |-> MathMax([i \in 1..Len(found) |-> Num(found[i].weight)]
                           \o <<Num(0)>>).n,
     patterns |-> [i \in 1..Len(found) |-> found[i].name]]

\* what detectSuspiciousPatterns returns for the patterns found
SuspiciousPatterns(found) ==
    [threw |-> FALSE,
     riskLevel |-> CappedRisk(found),
     patterns |-> [i \in 1..Len(found) |-> found[i].name]]

\* detectSuspiciousPatterns; it throws when it reads the latest entry of an
\* empty volumeData
detectSuspiciousPatterns(candlestickData, volumeData, holders) ==
    IF isRugPulled(candlestickData, volumeData)
    THEN [threw |-> FALSE, riskLevel |-> 100,
          patterns |-> <<"Dead coin detected">>]
    ELSE
    LET priceChanges == PriceChanges(LastN(candlestickData, 30))
        maxPriceChange == MathMax(priceChanges)
        minPriceChange == MathMin(priceChanges)
        pump == IF Gt(maxPriceChange, Num(500))
                THEN <<[name |-> "Extreme pump", weight |-> 60]>>
                ELSE IF Gt(maxPriceChange, Num(200))
                THEN <<[name |-> "Large pump", weight |-> 40]>>
                ELSE <<>>
        dump == IF Lt(minPriceChange, Num(-30))
                THEN <<[name |-> "Major dump", weight |-> 50]>>
                ELSE <<>>
        recentVolumes == LastN(volumeData, 30)
    IN  IF Len(recentVolumes) = 0
        THEN [threw |-> TRUE, riskLevel |-> 0, patterns |-> <<>>]
        ELSE
        LET averageVolume == Average(recentVolumes)
            latestVolume == recentVolumes[Len(recentVolumes)]
            volume ==
                IF latestVolume = 0
                THEN <<[name |-> "Zero volume", weight |-> 70]>>
                ELSE IF Lt(Num(latestVolume), Mul(averageVolume, Fin(1, 10)))
                THEN <<[name |-> "Volume dying out", weight |-> 40]>>
                ELSE <<>>
            topHolder ==
                IF Len(holders) = 0 THEN <<>>
                ELSE IF Gt(TopHoldersPercentage(holders, 1), Num(90))
                THEN <<[name |-> "Single wallet owns >90%", weight |-> 80]>>
                ELSE IF Gt(TopHoldersPercentage(holders, 1), Num(50))
                THEN <<[name |-> "Single wallet owns >50%", weight |-> 60]>>
                ELSE <<>>
            inProgress ==
                IF /\ HasExtremeHolder(holders)
                   /\ Gt(maxPriceChange, Num(100))
                   /\ Lt(minPriceChange, Num(-20))
                THEN <<[name |-> "Rug pull in progress", weight |-> 90]>>
                ELSE <<>>
        IN  SuspiciousPatterns(pump \o dump \o volume \o topHolder
                               \o inProgress)

\* ---- the inputs ----

MaxSeriesLen == 3

ClosePrices == {5, 25, 100}

VolumeChoices == {0, 10}

CandleChoices ==
    {Candle(c, c, v) : c \in ClosePrices, v \in VolumeChoices}
    \cup {Candle(100, 5, v) : v \in VolumeChoices}

\* every short series
ShortSeries == UNION {[1..n -> CandleChoices] : n \in 0..MaxSeriesLen}

\* n bars: close top up to bar a, 50 up to bar b, floor from then on and last
\* at the final bar; volume q except on the final z bars, where it is 0
Falling(n, top, a, b, floor, last, q, z) ==
    [i \in 1..n |->
        LET c == IF i <= a THEN top
                 ELSE IF i <= b THEN top \div 2
                 ELSE IF i = n THEN last
                 ELSE floor
        IN  Candle(c, c, IF i > n - z THEN 0 ELSE q)]

FamilyLengths == {6, 7, 30, 31}

\* a fall from 100 in one or two steps, then flat
CollapseSeries ==
    UNION {
        UNION {
            {Falling(n, 100, a, b, floor, floor, q, z) :
                b \in {a, n - 4}, floor \in {5, 25, 50},
                q \in VolumeChoices, z \in {0, 4, 5}}
          : a \in {1, n - 5, n - 4, n - 1}}
      : n \in FamilyLengths}

\* a fall from 10000 to 2500 followed by a last move of -4%, 0, +0.04% or +4%
FineSeries ==
    UNION {
        {Falling(n, 10000, a, a, 2500, last, q, z) :
            a \in {1, n - 4, n - 1}, last \in {2400, 2500, 2501, 2600},
            q \in VolumeChoices, z \in {0, 5}}
      : n \in {5, 6, 7}}

\* a rise of 60% or of 12%, 10% and 14%, then falls of 20%, 35% or 7%
PumpDumpSeries ==
    {[i \in 1..Len(closes) |-> Candle(closes[i], closes[i], 10)] :
        closes \in {<<1000, 1600, 1280, 1024>>, <<1000, 1600, 1040>>,
                    <<1000, 1600, 1280, 1184>>,
                    <<1000, 1600, 1280, 1184, 1110>>,
                    <<1000, 1600, 1500, 1200, 960>>,
                    <<1000, 1120, 1232, 1400, 1120, 896>>,
                    <<1000, 1600, 1280, 2000, 1600>>}}

CandleSeries ==
    ShortSeries \cup CollapseSeries \cup FineSeries \cup PumpDumpSeries

\* a volumeData whose latest entry is 1% of the others
FadingVolumes(candles) ==
    [i \in 1..Len(candles) |-> IF i = Len(candles) THEN 1 ELSE 100]

HolderChoices ==
    {<<>>, <<95, 3, 2>>, <<60, 20, 20>>, <<20, 20, 20, 20, 10, 10>>}

RugFns ==
    {"isRugPulled", "analyzeRugPullRisk", "detectSuspiciousPatterns",
     "analyzeCoin", "analyzeCoinResult"}

\* rugOut is the sequence of the values returned: empty, then one value
RugInit ==
    /\ rugFn \in RugFns
    /\ rugCandles \in CandleSeries
    /\ rugVolumes \in
          IF rugFn = "analyzeRugPullRisk" THEN {Volumes(rugCandles)}
          ELSE IF rugFn = "isRugPulled" THEN {Volumes(rugCandles), <<>>}
          ELSE {Volumes(rugCandles), <<>>, FadingVolumes(rugCandles)}
    /\ rugHolders \in
          IF rugFn = "isRugPulled" THEN {<<>>}
          ELSE IF rugFn \in {"analyzeCoin", "analyzeCoinResult"}
          THEN {<<>>, <<95, 3, 2>>}
          ELSE HolderChoices
    /\ rugOut = <<>>

RugParked ==
    /\ rugFn = "none"
    /\ rugCandles = <<>>
    /\ rugVolumes = <<>>
    /\ rugHolders = <<>>
    /\ rugOut = <<>>

IsRugPulled ==
    /\ rugFn = "isRugPulled"
    /\ rugOut = <<>>
    /\ rugOut' = <<[dead |-> isRugPulled(rugCandles, rugVolumes)]>>
    /\ UNCHANGED <<rugFn, rugCandles, rugVolumes, rugHolders>>

AnalyzeRugPullRisk ==
    /\ rugFn = "analyzeRugPullRisk"
    /\ rugOut = <<>>
    /\ rugOut' = <<analyzeRugPullRisk(rugCandles, rugHolders)>>
    /\ UNCHANGED <<rugFn, rugCandles, rugVolumes, rugHolders>>

DetectSuspiciousPatterns ==
    /\ rugFn = "detectSuspiciousPatterns"
    /\ rugOut = <<>>
    /\ rugOut' = <<detectSuspiciousPatterns(rugCandles, rugVolumes, rugHolders)>>
    /\ UNCHANGED <<rugFn, rugCandles, rugVolumes, rugHolders>>

\* the two detectors as analyzeCoin calls them on one minute snapshot
AnalyzeCoinDetectors ==
    /\ rugFn = "analyzeCoin"
    /\ rugOut = <<>>
    /\ rugOut' = <<analyzeRugPullRisk(rugCandles, rugHolders),
                   detectSuspiciousPatterns(rugCandles, rugVolumes, rugHolders)>>
    /\ UNCHANGED <<rugFn, rugCandles, rugVolumes, rugHolders>>

-----------------------------------------------------------------------------
(* Group "score": the factor scorers of analyzeCoin (analyzeTechnical,     *)
(* analyzeFundamental, analyzeSentiment, analyzeLiquidity,                  *)
(* analyzeConcentration) and the scorers of processIntelligenceData        *)
(* (enhanceTechnicalAnalysis, analyze...WithIntelligence,                   *)
(* createEnhancedRugPullAnalysis).  Every number of a payload is a          *)
(* JavaScript number; a missing numeric property is NaN; an optional        *)
(* object is a sequence with at most one element.  Only the numeric part    *)
(* of a scorer's result is kept.                                            *)

\* a truthy number: neither undefined, NaN nor 0
Truthy(x) == ~IsNaN(x) /\ ~(x.k = "fin" /\ x.n = 0)

\* x || y on numbers
OrElse(x, y) == IF Truthy(x) THEN x ELSE y

\* ---- analyzeSingleTimeframe and analyzeTechnical ----

analyzePriceAction(candlestickData) ==
    IF Len(candlestickData) < 3 THEN 0
    ELSE (IF \E i \in 1..Len(LastN(candlestickData, 3)) :
                 Min(LastN(candlestickData, 3)[i].open,
                     LastN(candlestickData, 3)[i].close)
                   - LastN(candlestickData, 3)[i].low
                 > Abs(LastN(candlestickData, 3)[i].close
                       - LastN(candlestickData, 3)[i].open) * 2
          THEN 5 ELSE 0)
         + (IF \A i \in 1..Len(LastN(candlestickData, 3)) :
                  LastN(candlestickData, 3)[i].close
                    > LastN(candlestickData, 3)[i].open
            THEN 8
            ELSE IF \A i \in 1..Len(LastN(candlestickData, 3)) :
                       LastN(candlestickData, 3)[i].close
                         < LastN(candlestickData, 3)[i].open
            THEN -8 ELSE 0)

\* data carries the candles and what the indicator helpers compute from them
analyzeSingleTimeframe(data) ==
    IF Len(data.candlestickData) = 0 THEN [score |-> Num(50)]
    ELSE [score |->
            Clamp(Num(50
                + (IF Lt(data.rsi, Num(30)) THEN 15
                   ELSE IF Gt(data.rsi, Num(70)) THEN -15
                   ELSE 0)
                + (IF /\ Gt(data.currentPrice, data.sma20)
                      /\ Gt(data.sma20, data.sma50) THEN 10
                   ELSE IF /\ Lt(data.currentPrice, data.sma20)
                           /\ Lt(data.sma20, data.sma50) THEN -10
                   ELSE 0)
                + (IF /\ Gt(data.histogram, Num(0))
                      /\ Gt(data.histogram, data.previousHistogram) THEN 8
                   ELSE IF /\ Lt(data.histogram, Num(0))
                           /\ Lt(data.histogram, data.previousHistogram) THEN -8
                   ELSE 0)
                + (IF Gt(data.currentPrice, data.upper) THEN -5
                   ELSE IF Lt(data.currentPrice, data.lower) THEN 5
                   ELSE 0)
                + (IF Gt(data.currentPrice, data.vwap) THEN 5 ELSE -5)
                + (IF Truthy(data.nearestSupport) THEN 5 ELSE 0)
                + (IF Truthy(data.nearestResistance) THEN -3 ELSE 0)
                + (IF Gt(data.volumeTrend, Fin(1, 10)) THEN 8
                   ELSE IF Lt(data.volumeTrend, Fin(-1, 10)) THEN -5
                   ELSE 0)
                + (IF Gt(data.volatility, Fin(2, 10)) THEN -5 ELSE 0)
                + analyzePriceAction(data.candlestickData)))]

analyzeTechnical(minute, hour, day) ==
    [score |->
        Clamp(Add(Add(Mul(analyzeSingleTimeframe(minute).score, Fin(2, 10)),
                      Mul(analyzeSingleTimeframe(hour).score, Fin(3, 10))),
                  Mul(analyzeSingleTimeframe(day).score, Fin(5, 10))))]

\* ---- the factor scorers of analyzeCoin ----

\* topCoins.coins.findIndex(c => c.symbol === symbol) + 1
MarketCapRank(topCoins, symbol) ==
    IF \E i \in 1..Len(topCoins) : topCoins[i] = symbol
    THEN CHOOSE i \in 1..Len(topCoins) :
            /\ topCoins[i] = symbol
            /\ \A j \in 1..(i - 1) : topCoins[j] # symbol
    ELSE 0

analyzeFundamentalMutant(coin, topCoins, marketData) ==
    [score |->
        Clamp(Num(50
            + (IF Lt(coin.ageInDays, Num(1)) THEN -30
               ELSE IF Lt(coin.ageInDays, Num(7)) THEN 20
               ELSE IF Lt(coin.ageInDays, Num(30)) THEN -10
               ELSE 5)
            + (IF /\ MarketCapRank(topCoins, coin.symbol) > 0
                  /\ MarketCapRank(topCoins, coin.symbol) <= 10 THEN 20
               ELSE IF /\ MarketCapRank(topCoins, coin.symbol) > 0
                       /\ MarketCapRank(topCoins, coin.symbol) <= 50 THEN 10
               ELSE -5)
            + (IF Gt(Div(coin.volume24h, coin.marketCap), Fin(1, 10)) THEN 10
               ELSE IF Lt(Div(coin.volume24h, coin.marketCap), Fin(1, 100))
               THEN -15
               ELSE 0)
            + (IF coin.isListed THEN 5 ELSE 0)
            + (IF StrictEq(Div(coin.circulatingSupply, coin.initialSupply),
                           Num(1))
               THEN 5 ELSE -3))),
     signals |->
        <<IF Lt(coin.ageInDays, Num(1))
          THEN "Extremely new coin - high risk"
          ELSE IF Lt(coin.ageInDays, Num(7))
          THEN "Very new coin - proceed with caution"
          ELSE IF Lt(coin.ageInDays, Num(30))
          THEN "New coin - elevated risk"
          ELSE "Established coin with price history">>
        \o <<IF /\ MarketCapRank(topCoins, coin.symbol) > 0
                /\ MarketCapRank(topCoins, coin.symbol) <= 10
             THEN "Top 10 coin by market cap"
             ELSE IF /\ MarketCapRank(topCoins, coin.symbol) > 0
                     /\ MarketCapRank(topCoins, coin.symbol) <= 50
             THEN "Top 50 coin by market cap"
             ELSE "Lower market cap coin - higher risk/reward potential">>
        \o (IF Gt(Div(coin.volume24h, coin.marketCap), Fin(1, 10))
            THEN <<"High trading volume relative to market cap">>
            ELSE IF Lt(Div(coin.volume24h, coin.marketCap), Fin(1, 100))
            THEN <<"Low trading volume - liquidity concerns">>
            ELSE <<>>)
        \o (IF coin.isListed
            THEN <<"Listed status provides additional legitimacy">>
            ELSE <<>>)
        \o <<IF StrictEq(Div(coin.circulatingSupply, coin.initialSupply),
                         Num(1))
             THEN "All tokens in circulation - no additional dilution risk"
             ELSE "% of supply not yet circulating">>]

\* coin.ageInDays is (Date.now() - createdAt) / (1000 * 60 * 60 * 24)
analyzeFundamental(coin, topCoins, marketData) ==
    [score |->
        Clamp(Num(50
            + (IF Lt(coin.ageInDays, Num(1)) THEN -30
               ELSE IF Lt(coin.ageInDays, Num(7)) THEN -20
               ELSE IF Lt(coin.ageInDays, Num(30)) THEN -10
               ELSE 5)
            + (IF /\ MarketCapRank(topCoins, coin.symbol) > 0
                  /\ MarketCapRank(topCoins, coin.symbol) <= 10 THEN 20
               ELSE IF /\ MarketCapRank(topCoins, coin.symbol) > 0
                       /\ MarketCapRank(topCoins, coin.symbol) <= 50 THEN 10
               ELSE -5)
            + (IF Gt(Div(coin.volume24h, coin.marketCap), Fin(1, 10)) THEN 10
               ELSE IF Lt(Div(coin.volume24h, coin.marketCap), Fin(1, 100))
               THEN -15
               ELSE 0)
            + (IF coin.isListed THEN 5 ELSE 0)
            + (IF StrictEq(Div(coin.circulatingSupply, coin.initialSupply),
                           Num(1))
               THEN 5 ELSE -3))),
     signals |->
        <<IF Lt(coin.ageInDays, Num(1))
          THEN "Extremely new coin - high risk"
          ELSE IF Lt(coin.ageInDays, Num(7))
          THEN "Very new coin - proceed with caution"
          ELSE IF Lt(coin.ageInDays, Num(30))
          THEN "New coin - elevated risk"
          ELSE "Established coin with price history">>
        \o <<IF /\ MarketCapRank(topCoins, coin.symbol) > 0
                /\ MarketCapRank(topCoins, coin.symbol) <= 10
             THEN "Top 10 coin by market cap"
             ELSE IF /\ MarketCapRank(topCoins, coin.symbol) > 0
                     /\ MarketCapRank(topCoins, coin.symbol) <= 50
             THEN "Top 50 coin by market cap"
             ELSE "Lower market cap coin - higher risk/reward potential">>
        \o (IF Gt(Div(coin.volume24h, coin.marketCap), Fin(1, 10))
            THEN <<"High trading volume relative to market cap">>
            ELSE IF Lt(Div(coin.volume24h, coin.marketCap), Fin(1, 100))
            THEN <<"Low trading volume - liquidity concerns">>
            ELSE <<>>)
        \o (IF coin.isListed
            THEN <<"Listed status provides additional legitimacy">>
            ELSE <<>>)
        \o <<IF StrictEq(Div(coin.circulatingSupply, coin.initialSupply),
                         Num(1))
             THEN "All tokens in circulation - no additional dilution risk"
             ELSE "% of supply not yet circulating">>]

\* name && name !== 'Anonymous'; a missing name is ""
NamedCreator(name) == name # "" /\ name # "Anonymous"

analyzeSentiment(coin) ==
    [score |->
        Clamp(Num(50
            + (IF Gt(coin.change24h, Num(50)) THEN 25
               ELSE IF Gt(coin.change24h, Num(20)) THEN 15
               ELSE IF Gt(coin.change24h, Num(5)) THEN 8
               ELSE IF Lt(coin.change24h, Num(-50)) THEN -25
               ELSE IF Lt(coin.change24h, Num(-20)) THEN -15
               ELSE IF Lt(coin.change24h, Num(-5)) THEN -8
               ELSE 0)
            + (IF NamedCreator(coin.creatorName) THEN 5 ELSE 0)))]

analyzeLiquidity(coin) ==
    [score |->
        Clamp(Num(50
            + (IF Lt(coin.poolBaseCurrencyAmount, Num(1000)) THEN -20
               ELSE IF Lt(coin.poolBaseCurrencyAmount, Num(5000)) THEN -10
               ELSE IF Lt(coin.poolBaseCurrencyAmount, Num(10000)) THEN 5
               ELSE 15)
            + (IF Gt(Div(coin.poolCoinAmount, coin.circulatingSupply),
                     Fin(7, 10)) THEN -10
               ELSE IF Lt(Div(coin.poolCoinAmount, coin.circulatingSupply),
                          Fin(5, 100)) THEN -15
               ELSE 10)
            + (IF Gt(Div(coin.volume24h, coin.poolBaseCurrencyAmount), Num(5))
               THEN -10
               ELSE IF Gt(Div(coin.volume24h, coin.poolBaseCurrencyAmount),
                          Num(2)) THEN 5
               ELSE IF Lt(Div(coin.volume24h, coin.poolBaseCurrencyAmount),
                          Fin(1, 10)) THEN -5
               ELSE 10)))]

\* (top5Balance / totalSupply) * 100 over the array of balances
Top5Percentage(balances) ==
    Mul(Div(Num(Sum(FirstN(balances, 5))), Num(Sum(balances))), Num(100))

\* holders.holders is the array of balances
analyzeConcentration(holders) ==
    [score |->
        Clamp(Num(50
            + (IF Gt(Top5Percentage(holders.holders), Num(95)) THEN -25
               ELSE IF Gt(Top5Percentage(holders.holders), Num(85)) THEN -15
               ELSE IF Gt(Top5Percentage(holders.holders), Num(70)) THEN -5
               ELSE 10)
            + (IF Lt(holders.totalHolders, Num(5)) THEN -15
               ELSE IF Lt(holders.totalHolders, Num(20)) THEN -5
               ELSE IF Gt(holders.totalHolders, Num(100)) THEN 15
               ELSE 5))),
     risks |->
        (IF Gt(Top5Percentage(holders.holders), Num(95))
         THEN <<"Extreme concentration - top 5 holders own >95%">>
         ELSE IF Gt(Top5Percentage(holders.holders), Num(85))
         THEN <<"High concentration - top 5 holders own >85%">>
         ELSE IF Gt(Top5Percentage(holders.holders), Num(70))
         THEN <<"Moderate concentration - top 5 holders own >70%">>
         ELSE <<>>)
        \o (IF Lt(holders.totalHolders, Num(5))
            THEN <<"Very few total holders">>
            ELSE IF Lt(holders.totalHolders, Num(20))
            THEN <<"Limited holder base">>
            ELSE <<>>)]

\* holders.holders.slice(0, 5).reduce((sum, h) => sum + h.percentage, 0)
SumOfPercentages(percentages) == Num(Sum(FirstN(percentages, 5)))

\* analyzeConcentration of the first class; holders.holders is the array of
\* the percentages
analyzeConcentrationBaseline(holders) ==
    IF Len(holders.holders) = 0
    THEN [score |-> Num(0), risks |-> <<"Unable to assess concentration risk">>]
    ELSE
    [score |->
        Clamp(Num(50
            + (IF holders.holders[1] > 80 THEN -40
               ELSE IF holders.holders[1] > 50 THEN -25
               ELSE IF holders.holders[1] > 20 THEN -10
               ELSE 10)
            + (IF Gt(SumOfPercentages(holders.holders), Num(90)) THEN -30
               ELSE IF Gt(SumOfPercentages(holders.holders), Num(70)) THEN -20
               ELSE IF Gt(SumOfPercentages(holders.holders), Num(50)) THEN -10
               ELSE 0)
            + (IF Lt(holders.totalHolders, Num(10)) THEN -20
               ELSE IF Lt(holders.totalHolders, Num(50)) THEN -10
               ELSE IF Gt(holders.totalHolders, Num(1000)) THEN 10
               ELSE 0))),
     risks |->
        (IF holders.holders[1] > 80
         THEN <<"Extreme concentration - single holder owns >80%">>
         ELSE IF holders.holders[1] > 50
         THEN <<"High concentration - single holder owns >50%">>
         ELSE IF holders.holders[1] > 20
         THEN <<"Moderate concentration - top holder owns >20%">>
         ELSE <<"Good distribution - no single large holder">>)
        \o (IF Gt(SumOfPercentages(holders.holders), Num(90))
            THEN <<"Extreme concentration - top 5 holders own >90%">>
            ELSE IF Gt(SumOfPercentages(holders.holders), Num(70))
            THEN <<"High concentration - top 5 holders own >70%">>
            ELSE IF Gt(SumOfPercentages(holders.holders), Num(50))
            THEN <<"Moderate concentration - top 5 holders own >50%">>
            ELSE <<>>)
        \o (IF Lt(holders.totalHolders, Num(10))
            THEN <<"Very few total holders">>
            ELSE IF Lt(holders.totalHolders, Num(50))
            THEN <<"Limited holder base">>
            ELSE IF Gt(holders.totalHolders, Num(1000))
            THEN <<"Large, distributed holder base">>
            ELSE <<>>)]

\* ---- the scorers of processIntelligenceData ----

EnhancedTechnical(baseAnalysis, entryExit) ==
    IF Len(entryExit) = 0 THEN baseAnalysis
    ELSE [score |->
            JsMin(Num(100),
                  Add(baseAnalysis.score,
                      Mul(entryExit[1].confidence, Fin(3, 10))))]

enhanceTechnicalAnalysis(data, minute) ==
    EnhancedTechnical(analyzeTechnical(minute, minute, minute),
                      data.tradingIntelligence.entryExit)

EnhancedSentiment(baseSentiment, marketPsych) ==
    IF Len(marketPsych) = 0 THEN baseSentiment
    ELSE [score |->
            Clamp(Add(Add(baseSentiment.score,
                          Num(IF marketPsych[1].sentiment = "extreme_greed"
                              THEN -15
                              ELSE IF marketPsych[1].sentiment = "extreme_fear"
                              THEN 20
                              ELSE 0)),
                      Mul(Sub(marketPsych[1].buyPressure,
                              marketPsych[1].sellPressure),
                          Fin(2, 10))))]

analyzeSentimentWithIntelligence(data) ==
    EnhancedSentiment(analyzeSentiment(data.basicInfo),
                      data.tradingIntelligence.marketPsychology)

EnhancedLiquidity(baseLiquidity, liquidityData) ==
    IF Len(liquidityData) = 0 THEN baseLiquidity
    ELSE [score |->
            Clamp(Add(baseLiquidity.score,
                      Num(IF liquidityData[1].liquidityRisk = "high" THEN -25
                          ELSE IF liquidityData[1].liquidityRisk = "low" THEN 15
                          ELSE 0)))]

analyzeLiquidityWithIntelligence(data) ==
    EnhancedLiquidity(analyzeLiquidity(data.basicInfo), data.liquidityAnalysis)

\* holderBehavior.filter(h => h.riskScore > limit).length
RECURSIVE RiskierThan(_, _)
RiskierThan(holderBehavior, limit) ==
    IF Len(holderBehavior) = 0 THEN 0
    ELSE (IF Gt(Head(holderBehavior).riskScore, Num(limit)) THEN 1 ELSE 0)
         + RiskierThan(Tail(holderBehavior), limit)

analyzeConcentrationWithIntelligence(data) ==
    IF Len(data.holderAnalysis) = 0
    THEN analyzeConcentration([totalHolders |-> Num(100), holders |-> <<>>])
    ELSE [score |->
            Clamp(Num(50
                + (IF Gt(data.holderAnalysis[1].topHolderPercentage, Num(50))
                   THEN -30
                   ELSE IF Gt(data.holderAnalysis[1].topHolderPercentage,
                              Num(20))
                   THEN -15
                   ELSE 0)
                + (IF Gt(data.holderAnalysis[1].top5HolderPercentage, Num(80))
                   THEN -25 ELSE 0)
                - RiskierThan(data.holderAnalysis[1].holderBehavior, 50) * 10))]

EnhancedFundamental(baseFundamental, intelligence) ==
    [score |->
        Clamp(Add(baseFundamental.score,
                  Num((IF NamedCreator(intelligence.creatorName)
                       THEN 10 ELSE 0)
                      + (IF intelligence.marketPosition = "trending" THEN 15
                         ELSE IF intelligence.marketPosition = "moon" THEN 5
                         ELSE 0))))]

analyzeFundamentalWithIntelligence(data) ==
    EnhancedFundamental(analyzeFundamental(data.basicInfo, <<>>, <<>>),
                        data.intelligence)

\* overallRisk and the riskLevel derived from it
EnhancedRugPull(overallRisk) ==
    [overallRisk |-> overallRisk,
     riskLevel |-> IF Ge(overallRisk, Num(80)) THEN "critical"
                   ELSE IF Ge(overallRisk, Num(60)) THEN "high"
                   ELSE IF Ge(overallRisk, Num(35)) THEN "medium"
                   ELSE "low"]

\* reading a property of the missing holderAnalysis throws a TypeError
createEnhancedRugPullAnalysis(data) ==
    IF Len(data.holderAnalysis) = 0 THEN <<>>
    ELSE <<EnhancedRugPull(
            JsMin(Num(100),
                  Add(OrElse(data.riskAssessment.overallRiskScore, Num(0)),
                      Num(RiskierThan(data.holderAnalysis[1].holderBehavior, 70)
                            * 15
                          + (IF data.holderAnalysis[1].concentrationRisk = "high"
                             THEN (IF /\ Gt(data.basicInfo.change24h, Num(20))
                                      /\ Gt(data.basicInfo.volume24h,
                                            Num(10000))
                                   THEN 15 ELSE 30)
                             ELSE 0)))))>>

\* ---- the inputs ----

\* candles of analyzePriceAction: [open, close, low]
Bar(o, c, l) == [open |-> o, close |-> c, low |-> l]

RecentBars ==
    {<<Bar(10, 11, 5), Bar(10, 11, 5), Bar(10, 11, 5)>>,
     <<Bar(11, 10, 10), Bar(11, 10, 10), Bar(11, 10, 10)>>,
     <<Bar(11, 10, 5), Bar(10, 11, 10), Bar(10, 10, 10)>>,
     <<Bar(10, 11, 10), Bar(11, 10, 10)>>}

Reading(c, r, s, m, b, v, sup, res, vt, vol) ==
    [candlestickData |-> c, currentPrice |-> Num(100), rsi |-> Num(r),
     sma20 |-> Num(s[1]), sma50 |-> Num(s[2]),
     histogram |-> Num(m[1]), previousHistogram |-> Num(m[2]),
     upper |-> Num(b[1]), lower |-> Num(b[2]), vwap |-> v,
     nearestSupport |-> sup, nearestResistance |-> res,
     volumeTrend |-> vt, volatility |-> vol]

TimeframeReadings ==
    {Reading(c, r, s, m, b, v, sup, res, vt, vol) :
        c \in RecentBars, r \in {20, 50, 80},
        s \in {<<90, 80>>, <<80, 90>>, <<100, 100>>, <<110, 120>>,
               <<120, 110>>},
        m \in {<<2, 1>>, <<0, 0>>, <<-2, -1>>},
        b \in {<<90, 80>>, <<110, 90>>, <<120, 110>>},
        v \in {Num(90), NaN}, sup \in {NaN, Num(95)}, res \in {NaN, Num(105)},
        vt \in {Fin(1, 2), Num(0), Fin(-1, 2)}, vol \in {Fin(3, 10), Fin(1, 20)}}

NoCandles ==
    Reading(<<>>, 50, <<100, 100>>, <<0, 0>>, <<110, 90>>, NaN, NaN, NaN,
            NaN, NaN)

Bullish ==
    Reading(<<Bar(10, 11, 5), Bar(10, 11, 5), Bar(10, 11, 5)>>, 20,
            <<90, 80>>, <<2, 1>>, <<120, 110>>, Num(90), Num(95), NaN,
            Fin(1, 2), Fin(1, 20))

Bearish ==
    Reading(<<Bar(11, 10, 10), Bar(11, 10, 10), Bar(11, 10, 10)>>, 80,
            <<110, 120>>, <<-2, -1>>, <<90, 80>>, NaN, NaN, Num(105),
            Fin(-1, 2), Fin(3, 10))

Quiet ==
    Reading(<<Bar(10, 11, 10), Bar(11, 10, 10)>>, 50, <<100, 100>>, <<0, 0>>,
            <<110, 90>>, Num(90), NaN, NaN, Num(0), Fin(1, 20))

Profiles ==
    {NoCandles, Bullish, Bearish, Quiet,
     [Quiet EXCEPT !.rsi = Num(20)], [Quiet EXCEPT !.vwap = NaN]}

TopCoinSymbols == [i \in 1..80 |-> i]

DefaultCoin ==
    [symbol |-> 99, change24h |-> Num(0), creatorName |-> "Anonymous",
     ageInDays |-> Num(100), volume24h |-> Num(5000),
     marketCap |-> Num(100000), isListed |-> FALSE,
     circulatingSupply |-> Num(1000), initialSupply |-> Num(1000),
     poolBaseCurrencyAmount |-> Num(5000), poolCoinAmount |-> Num(500)]

SentimentCoins ==
    {[DefaultCoin EXCEPT !.change24h = c, !.creatorName = n] :
        c \in {Num(-60), Num(-50), Num(-30), Num(-10), Num(0), Num(5),
               Num(10), Num(30), Num(60), NaN, Infinity(1), Infinity(-1)},
        n \in {"", "Anonymous", "alice"}}

FundamentalCoins ==
    {[DefaultCoin EXCEPT !.ageInDays = a, !.symbol = s, !.volume24h = v[1],
                         !.marketCap = v[2], !.isListed = l,
                         !.circulatingSupply = c[1], !.initialSupply = c[2]] :
        a \in {Fin(1, 2), Num(2), Num(3), Num(10), Num(100), Num(-5), NaN},
        s \in {1, 10, 11, 50, 51, 75, 99},
        v \in {<<Num(20000), Num(100000)>>, <<Num(5000), Num(100000)>>,
               <<Num(500), Num(100000)>>, <<Num(200), Num(100000)>>,
               <<Num(0), Num(0)>>,
               <<Num(100), Num(0)>>},
        l \in BOOLEAN,
        c \in {<<Num(1000), Num(1000)>>, <<Num(500), Num(1000)>>,
               <<Num(0), Num(0)>>}}

LiquidityCoins ==
    {[DefaultCoin EXCEPT !.poolBaseCurrencyAmount = p, !.poolCoinAmount = c[1],
                         !.circulatingSupply = c[2], !.volume24h = v] :
        p \in {Num(0), Num(500), Num(3000), Num(7000), Num(20000), NaN},
        c \in {<<Num(10), Num(1000)>>, <<Num(500), Num(1000)>>,
               <<Num(900), Num(1000)>>, <<Num(0), Num(0)>>},
        v \in {Num(0), Num(100), Num(10000), Num(50000), Num(200000)}}

HoldersResponses ==
    {[totalHolders |-> t, holders |-> h] :
        t \in {Num(0), Num(3), Num(8), Num(10), Num(50), Num(500), Num(2000),
               NaN},
        h \in {<<>>, <<0, 0>>, <<95, 1, 1, 1, 0, 2>>, <<50, 20, 10, 10, 8, 2>>,
               <<40, 20, 10, 10, 10, 10>>, <<30, 20, 10, 10, 10, 20>>,
               <<10, 10, 10, 10, 10, 50>>}}

Holder(riskScore, isWhale, activityLevel) ==
    [riskScore |-> Num(riskScore), isWhale |-> isWhale,
     activityLevel |-> activityLevel]

HolderBehaviors ==
    {<<>>, <<Holder(20, TRUE, "low")>>, <<Holder(60, FALSE, "high")>>,
     <<Holder(60, TRUE, "low"), Holder(80, FALSE, "high"),
       Holder(90, TRUE, "high")>>}

DefaultData ==
    [basicInfo |-> DefaultCoin,
     tradingIntelligence |-> [entryExit |-> <<>>, marketPsychology |-> <<>>],
     liquidityAnalysis |-> <<>>,
     holderAnalysis |->
        <<[topHolderPercentage |-> Num(10), top5HolderPercentage |-> Num(50),
           holderBehavior |-> <<>>, concentrationRisk |-> "low"]>>,
     intelligence |-> [creatorName |-> "", marketPosition |-> ""],
     riskAssessment |-> [overallRiskScore |-> Num(40), riskLevel |-> "LOW"]]

EntryExits ==
    {<<>>}
    \cup {<<[confidence |-> c, currentPosition |-> "neutral",
             recommendation |-> "wait"]>> :
            c \in {Num(0), Num(50), Num(95), Num(-400), NaN}}

MarketPsychologies ==
    {<<>>}
    \cup {<<[sentiment |-> s, buyPressure |-> p[1], sellPressure |-> p[2]]>> :
            s \in {"extreme_greed", "extreme_fear", "neutral"},
            p \in {<<Num(50), Num(50)>>, <<Num(100), Num(0)>>,
                   <<Num(0), Num(100)>>, <<Num(1000), Num(-1000)>>,
                   <<Num(50), NaN>>}}

TechnicalData ==
    {[data |-> [DefaultData EXCEPT !.tradingIntelligence.entryExit = e],
      minuteData |-> m] : e \in EntryExits, m \in Profiles}

SentimentData ==
    {[DefaultData EXCEPT !.basicInfo = c,
                         !.tradingIntelligence.marketPsychology = p] :
        c \in SentimentCoins, p \in MarketPsychologies}

LiquidityData ==
    {[DefaultData EXCEPT !.basicInfo = c, !.liquidityAnalysis = l] :
        c \in LiquidityCoins,
        l \in {<<>>} \cup {<<[liquidityRisk |-> r, poolPercentage |-> Num(10)]>> :
                              r \in {"high", "medium", "low"}}}

ConcentrationData ==
    {[DefaultData EXCEPT !.holderAnalysis = h] :
        h \in {<<>>}
              \cup {<<[topHolderPercentage |-> t, top5HolderPercentage |-> f,
                       holderBehavior |-> b, concentrationRisk |-> "low"]>> :
                      t \in {Num(10), Num(30), Num(60), NaN},
                      f \in {Num(50), Num(90)}, b \in HolderBehaviors}}

FundamentalData ==
    {[DefaultData EXCEPT !.basicInfo = c, !.intelligence.creatorName = n,
                         !.intelligence.marketPosition = p] :
        c \in FundamentalCoins, n \in {"", "Anonymous", "alice"},
        p \in {"", "trending", "moon"}}

RugPullData ==
    {[DefaultData EXCEPT !.riskAssessment.overallRiskScore = s,
                         !.riskAssessment.riskLevel = l,
                         !.holderAnalysis = h,
                         !.basicInfo.change24h = g[1],
                         !.basicInfo.volume24h = g[2]] :
        s \in {NaN, Num(-20), Num(0), Num(40), Num(90), Num(250)},
        l \in {"LOW", "CRITICAL"},
        h \in {<<>>}
              \cup {<<[topHolderPercentage |-> Num(60),
                       top5HolderPercentage |-> Num(90),
                       holderBehavior |-> b, concentrationRisk |-> r]>> :
                      b \in HolderBehaviors, r \in {"high", "low"}},
        g \in {<<Num(30), Num(20000)>>, <<Num(0), Num(0)>>}}

ScoreFns ==
    {"analyzeSingleTimeframe", "analyzeTechnical", "analyzeFundamental",
     "analyzeSentiment", "analyzeLiquidity", "analyzeConcentration",
     "analyzeConcentrationBaseline",
     "enhanceTechnicalAnalysis", "analyzeSentimentWithIntelligence",
     "analyzeLiquidityWithIntelligence",
     "analyzeConcentrationWithIntelligence",
     "analyzeFundamentalWithIntelligence", "createEnhancedRugPullAnalysis"}

ScoreInputs(fn) ==
    CASE fn = "analyzeSingleTimeframe" -> TimeframeReadings \cup Profiles
      [] fn = "analyzeTechnical" -> Profiles \X Profiles \X Profiles
      [] fn = "analyzeFundamental" -> FundamentalCoins
      [] fn = "analyzeSentiment" -> SentimentCoins
      [] fn = "analyzeLiquidity" -> LiquidityCoins
      [] fn = "analyzeConcentration" -> HoldersResponses
      [] fn = "analyzeConcentrationBaseline" -> HoldersResponses
      [] fn = "enhanceTechnicalAnalysis" -> TechnicalData
      [] fn = "analyzeSentimentWithIntelligence" -> SentimentData
      [] fn = "analyzeLiquidityWithIntelligence" -> LiquidityData
      [] fn = "analyzeConcentrationWithIntelligence" -> ConcentrationData
      [] fn = "analyzeFundamentalWithIntelligence" -> FundamentalData
      [] fn = "createEnhancedRugPullAnalysis" -> RugPullData

\* scOut is the sequence of the values returned: empty, then one value
ScoreInit ==
    /\ scFn \in ScoreFns
    /\ scIn \in ScoreInputs(scFn)
    /\ scOut = <<>>
    /\ scThrew = FALSE

ScoreParked ==
    /\ scFn = "none"
    /\ scIn = <<>>
    /\ scOut = <<>>
    /\ scThrew = FALSE

Calls(fn) == scFn = fn /\ scOut = <<>> /\ ~scThrew

Returns(value) ==
    /\ scOut' = <<value>>
    /\ UNCHANGED <<scFn, scIn, scThrew>>

AnalyzeSingleTimeframe ==
    Calls("analyzeSingleTimeframe") /\ Returns(analyzeSingleTimeframe(scIn))

AnalyzeTechnical ==
    /\ Calls("analyzeTechnical")
    /\ Returns(analyzeTechnical(scIn[1], scIn[2], scIn[3]))

AnalyzeFundamental ==
    /\ Calls("analyzeFundamental")
    /\ Returns(analyzeFundamental(scIn, TopCoinSymbols, <<>>))

AnalyzeSentiment ==
    Calls("analyzeSentiment") /\ Returns(analyzeSentiment(scIn))

AnalyzeLiquidity ==
    Calls("analyzeLiquidity") /\ Returns(analyzeLiquidity(scIn))

AnalyzeConcentration ==
    Calls("analyzeConcentration") /\ Returns(analyzeConcentration(scIn))

AnalyzeConcentrationBaseline ==
    /\ Calls("analyzeConcentrationBaseline")
    /\ Returns(analyzeConcentrationBaseline(scIn))

EnhanceTechnicalAnalysis ==
    /\ Calls("enhanceTechnicalAnalysis")
    /\ Returns(enhanceTechnicalAnalysis(scIn.data, scIn.minuteData))

AnalyzeSentimentWithIntelligence ==
    /\ Calls("analyzeSentimentWithIntelligence")
    /\ Returns(analyzeSentimentWithIntelligence(scIn))

AnalyzeLiquidityWithIntelligence ==
    /\ Calls("analyzeLiquidityWithIntelligence")
    /\ Returns(analyzeLiquidityWithIntelligence(scIn))

AnalyzeConcentrationWithIntelligence ==
    /\ Calls("analyzeConcentrationWithIntelligence")
    /\ Returns(analyzeConcentrationWithIntelligence(scIn))

AnalyzeFundamentalWithIntelligence ==
    /\ Calls("analyzeFundamentalWithIntelligence")
    /\ Returns(analyzeFundamentalWithIntelligence(scIn))

CreateEnhancedRugPullAnalysis ==
    /\ Calls("createEnhancedRugPullAnalysis")
    /\ scOut' = createEnhancedRugPullAnalysis(scIn)
    /\ scThrew' = (Len(scIn.holderAnalysis) = 0)
    /\ UNCHANGED <<scFn, scIn>>

-----------------------------------------------------------------------------
(* Group "decision": calculateRiskLevel, generateRecommendation and the    *)
(* override of analyzeCoin.  Scores are JavaScript numbers.  A confidence  *)
(* is a number 95 - sqrt(q) with q >= 0; it is kept as the fraction q, so  *)
(* that 95, 90, 85, 80 and 70 are q = 0, 25, 100, 225 and 625 and a lower  *)
(* confidence is a larger q.                                               *)

\* the confidence `percent`, percent <= 95
Confidence(percent) == Num((95 - percent) * (95 - percent))

\* Math.min(confidence, percent)
ConfidenceAtMost(confidence, percent) ==
    JsMax(confidence, Confidence(percent))

\* values.reduce((a, b) => a + Math.pow(b - meanScore, 2), 0) / values.length
VarianceAround(values, meanScore) ==
    Div(SumNum([i \in 1..Len(values) |->
                   Mul(Sub(values[i], meanScore), Sub(values[i], meanScore))]),
        Num(Len(values)))

\* the variance of recentIndicators around their mean
Variance(recentIndicators) ==
    VarianceAround(recentIndicators,
                   Div(SumNum(recentIndicators), Num(Len(recentIndicators))))

\* the riskLevel of a weightedScore
RiskLevelOf(weightedScore) ==
    IF Ge(weightedScore, Num(80)) THEN "VERY_LOW"
    ELSE IF Ge(weightedScore, Num(65)) THEN "LOW"
    ELSE IF Ge(weightedScore, Num(50)) THEN "MEDIUM"
    ELSE IF Ge(weightedScore, Num(35)) THEN "HIGH"
    ELSE "VERY_HIGH"

ClampedConfidenceMutant(variance) == variance

\* Math.max(70, Math.min(95, 95 - Math.sqrt(variance))), kept as
\* Math.min(625, variance)
ClampedConfidence(variance) == JsMin(Num(625), variance)

calculateRiskLevelMutant(technicalScore, fundamentalScore, sentimentScore, liquidityScore, concentrationScore, suspiciousPatterns) ==
    IF Gt(suspiciousPatterns, Num(90))
    THEN [riskLevel |-> "VERY_HIGH", confidence |-> Confidence(95)]
    ELSE IF Gt(suspiciousPatterns, Num(70))
    THEN [riskLevel |-> "HIGH", confidence |-> Confidence(85)]
    ELSE [riskLevel |->
            RiskLevelOf(
                Add(Add(Add(Add(Add(Mul(technicalScore, Fin(25, 100)),
                                    Mul(fundamentalScore, Fin(5, 100))),
                                Mul(sentimentScore, Fin(15, 100))),
                            Mul(liquidityScore, Fin(15, 100))),
                        Mul(concentrationScore, Fin(5, 100))),
                    Mul(suspiciousPatterns, Fin(35, 100)))),
          confidence |->
            ClampedConfidence(
                Variance(<<technicalScore, liquidityScore,
                           Sub(Num(100), suspiciousPatterns)>>))]

calculateRiskLevel(technicalScore, fundamentalScore, sentimentScore, liquidityScore, concentrationScore, suspiciousPatterns) ==
    IF Ge(suspiciousPatterns, Num(90))
    THEN [riskLevel |-> "VERY_HIGH", confidence |-> Confidence(95)]
    ELSE IF Ge(suspiciousPatterns, Num(70))
    THEN [riskLevel |-> "HIGH", confidence |-> Confidence(85)]
    ELSE [riskLevel |->
            RiskLevelOf(
                Add(Add(Add(Add(Add(Mul(technicalScore, Fin(25, 100)),
                                    Mul(fundamentalScore, Fin(5, 100))),
                                Mul(sentimentScore, Fin(15, 100))),
                            Mul(liquidityScore, Fin(15, 100))),
                        Mul(concentrationScore, Fin(5, 100))),
                    Mul(suspiciousPatterns, Fin(35, 100)))),
          confidence |->
            ClampedConfidence(
                Variance(<<technicalScore, liquidityScore,
                           Sub(Num(100), suspiciousPatterns)>>))]

\* the recommendation of an overallScore
RecommendationOf(overallScore) ==
    IF Ge(overallScore, Num(75)) THEN "STRONG_BUY"
    ELSE IF Ge(overallScore, Num(65)) THEN "BUY"
    ELSE IF Ge(overallScore, Num(50)) THEN "HOLD"
    ELSE IF Ge(overallScore, Num(30)) THEN "SELL"
    ELSE "STRONG_SELL"

generateRecommendationMutant(technicalScore, fundamentalScore, sentimentScore, liquidityScore, concentrationScore, riskLevel, suspiciousRiskLevel) ==
    IF Ge(suspiciousRiskLevel, Num(90)) THEN "STRONG_SELL"
    ELSE IF Ge(suspiciousRiskLevel, Num(70)) THEN "SELL"
    ELSE IF riskLevel = "VERY_HIGH" THEN "SELL"
    ELSE RecommendationOf(
            Add(Add(Add(Add(Add(Mul(technicalScore, Fin(30, 100)),
                                Mul(sentimentScore, Fin(15, 100))),
                            Mul(liquidityScore, Fin(15, 100))),
                        Mul(fundamentalScore, Fin(5, 100))),
                    Mul(concentrationScore, Fin(5, 100))),
                Mul(Sub(Num(100), suspiciousRiskLevel), Fin(30, 100))))

generateRecommendation(technicalScore, fundamentalScore, sentimentScore, liquidityScore, concentrationScore, riskLevel, suspiciousRiskLevel) ==
    IF Ge(suspiciousRiskLevel, Num(90)) THEN "STRONG_SELL"
    ELSE IF Ge(suspiciousRiskLevel, Num(70)) THEN "SELL"
    ELSE RecommendationOf(
            Add(Add(Add(Add(Add(Mul(technicalScore, Fin(30, 100)),
                                Mul(sentimentScore, Fin(15, 100))),
                            Mul(liquidityScore, Fin(15, 100))),
                        Mul(fundamentalScore, Fin(5, 100))),
                    Mul(concentrationScore, Fin(5, 100))),
                Mul(Sub(Num(100), suspiciousRiskLevel), Fin(30, 100))))

getRecommendationDescription(recommendation) ==
    CASE recommendation = "STRONG_BUY" -> "Strong buy signal."
      [] recommendation = "BUY" -> "Buy signal."
      [] recommendation = "HOLD" -> "Hold position."
      [] recommendation = "SELL" -> "Sell signal."
      [] recommendation = "STRONG_SELL" -> "Strong sell signal."
      [] OTHER -> "No clear recommendation at this time."

\* confidence.toFixed(1), in tenths: the confidence 95 - sqrt(q) is kept as
\* q, and t is the nearest tenth when 2 * (950 - t) is within 1 of
\* 2 * sqrt(100 * q)
toFixed1(confidence) ==
    IF confidence.k # "fin" THEN -1
    ELSE CHOOSE t \in 700..950 :
            /\ (2 * (950 - t) + 1) * (2 * (950 - t) + 1) * confidence.d
                  >= 400 * confidence.n
            /\ \/ t = 950
               \/ (2 * (950 - t) - 1) * (2 * (950 - t) - 1) * confidence.d
                     < 400 * confidence.n

\* generateSummary formats its arguments into one text; the text is kept as
\* its parts that vary, and a template `${banner}${finalSummary}` as the pair
generateSummary(recommendation, riskLevel, confidence) ==
    [banner |-> "",
     text |-> [recommendation |-> getRecommendationDescription(recommendation),
               riskLevel |-> riskLevel,
               confidence |-> toFixed1(confidence)]]

\* lines 1604-1626 of analyzeCoin: the override by rugPullAnalysis.riskLevel
FinalResultMutant(rugRiskLevel, risk, baseRecommendation) ==
    IF rugRiskLevel = "critical"
    THEN [recommendation |-> "STRONG_SELL",
          riskLevel |-> risk.riskLevel,
          confidence |-> ConfidenceAtMost(risk.confidence, 90),
          summary |-> [generateSummary(baseRecommendation, risk.riskLevel,
                                       risk.confidence)
                         EXCEPT !.banner = "DANGER: "],
          rugPullAnalysis |-> [riskLevel |-> rugRiskLevel]]
    ELSE [recommendation |-> baseRecommendation,
          riskLevel |-> risk.riskLevel,
          confidence |-> risk.confidence,
          summary |-> generateSummary(baseRecommendation, risk.riskLevel,
                                      risk.confidence),
          rugPullAnalysis |-> [riskLevel |-> rugRiskLevel]]

FinalResult(rugRiskLevel, risk, baseRecommendation) ==
    IF rugRiskLevel = "critical"
    THEN [recommendation |-> "STRONG_SELL",
          riskLevel |-> risk.riskLevel,
          confidence |-> ConfidenceAtMost(risk.confidence, 90),
          summary |-> [generateSummary(baseRecommendation, risk.riskLevel,
                                       risk.confidence)
                         EXCEPT !.banner = "DANGER: "],
          rugPullAnalysis |-> [riskLevel |-> rugRiskLevel]]
    ELSE IF rugRiskLevel = "high"
    THEN [recommendation |-> IF baseRecommendation # "STRONG_SELL"
                             THEN "SELL" ELSE baseRecommendation,
          riskLevel |-> risk.riskLevel,
          confidence |-> IF baseRecommendation # "STRONG_SELL"
                         THEN ConfidenceAtMost(risk.confidence, 80)
                         ELSE risk.confidence,
          summary |-> [generateSummary(baseRecommendation, risk.riskLevel,
                                       risk.confidence)
                         EXCEPT !.banner = "WARNING: "],
          rugPullAnalysis |-> [riskLevel |-> rugRiskLevel]]
    ELSE [recommendation |-> baseRecommendation,
          riskLevel |-> risk.riskLevel,
          confidence |-> risk.confidence,
          summary |-> generateSummary(baseRecommendation, risk.riskLevel,
                                      risk.confidence),
          rugPullAnalysis |-> [riskLevel |-> rugRiskLevel]]

\* generateRecommendation receives the riskLevel that calculateRiskLevel
\* returned
BaseRecommendation(in, risk) ==
    generateRecommendation(in.technical, in.fundamental, in.sentiment,
                           in.liquidity, in.concentration, risk.riskLevel,
                           in.suspicious)

\* analyzeCoin from the call of calculateRiskLevel on; in holds the scores
\* of the scorers and the riskLevel of rugPullAnalysis
analyzeCoin(in) ==
    FinalResult(in.rug,
                calculateRiskLevel(in.technical, in.fundamental, in.sentiment,
                                   in.liquidity, in.concentration,
                                   in.suspicious),
                BaseRecommendation(in,
                    calculateRiskLevel(in.technical, in.fundamental,
                                       in.sentiment, in.liquidity,
                                       in.concentration, in.suspicious)))

\* ---- the scorers that read the clock ----

\* the coin with (Date.now() - new Date(coin.createdAt).getTime()) /
\* (1000 * 60 * 60 * 24) for the clock reading now
AgedAt(coin, createdAt, now) ==
    [coin EXCEPT !.ageInDays = Num(now - createdAt)]

\* coin.ageInDays is the ageInDays computed from Date.now()
generateWarnings(coin, holders, liquidity, concentration) ==
    liquidity.warnings \o concentration.risks
    \o (IF Lt(coin.ageInDays, Num(7))
        THEN <<"Extremely new coin - high probability of volatility and potential scam">>
        ELSE <<>>)
    \o (IF Lt(Div(coin.volume24h, coin.marketCap), Fin(1, 100))
        THEN <<"Very low trading volume relative to market cap">>
        ELSE <<>>)
    \o (IF Lt(holders.totalHolders, Num(50))
        THEN <<"Very limited holder base increases manipulation risk">>
        ELSE <<>>)

\* ---- the enriched path ----

\* holderBehavior.filter(h => h.isWhale && h.riskScore < 30 &&
\*                            h.activityLevel === 'low').length
RECURSIVE LegitimateWhales(_)
LegitimateWhales(holderBehavior) ==
    IF Len(holderBehavior) = 0 THEN 0
    ELSE (IF /\ Head(holderBehavior).isWhale
             /\ Lt(Head(holderBehavior).riskScore, Num(30))
             /\ Head(holderBehavior).activityLevel = "low"
          THEN 1 ELSE 0)
         + LegitimateWhales(Tail(holderBehavior))

\* entryExit.currentPosition === position && entryExit.confidence > 70
Positioned(entryExit, position) ==
    /\ Len(entryExit) = 1
    /\ entryExit[1].currentPosition = position
    /\ Gt(entryExit[1].confidence, Num(70))

\* the riskLevel of calculateIntelligentRiskLevel for a clamped riskScore
IntelligentRiskLevelOf(riskScore) ==
    IF Ge(riskScore, Num(80)) THEN "VERY_HIGH"
    ELSE IF Ge(riskScore, Num(65)) THEN "HIGH"
    ELSE IF Ge(riskScore, Num(50)) THEN "MEDIUM"
    ELSE IF Ge(riskScore, Num(35)) THEN "LOW"
    ELSE "VERY_LOW"

calculateIntelligentRiskLevel(data) ==
    [riskLevel |->
        IntelligentRiskLevelOf(
            Clamp(Add(OrElse(data.riskAssessment.overallRiskScore, Num(50)),
                      Num((IF Positioned(data.tradingIntelligence.entryExit,
                                         "oversold") THEN -15
                           ELSE IF Positioned(data.tradingIntelligence.entryExit,
                                              "overbought") THEN 20
                           ELSE 0)
                          + (IF Len(data.tradingIntelligence.marketPsychology) = 0
                             THEN 0
                             ELSE IF /\ data.tradingIntelligence
                                            .marketPsychology[1].sentiment
                                          = "extreme_fear"
                                     /\ Gt(data.tradingIntelligence
                                               .marketPsychology[1].buyPressure,
                                           Num(60)) THEN -10
                             ELSE IF /\ data.tradingIntelligence
                                            .marketPsychology[1].sentiment
                                          = "extreme_greed"
                                     /\ Gt(data.tradingIntelligence
                                               .marketPsychology[1].sellPressure,
                                           Num(60)) THEN 15
                             ELSE 0)
                          - LegitimateWhales(
                                data.holderAnalysis[1].holderBehavior) * 5)))),
     confidence |->
        Confidence(IF Positioned(data.tradingIntelligence.entryExit, "oversold")
                   THEN 85
                   ELSE IF Positioned(data.tradingIntelligence.entryExit,
                                      "overbought")
                   THEN 80 ELSE 75)]

\* data.basicInfo.change24h > 20 && data.basicInfo.volume24h > 10000
IsGrowthCoin(basicInfo) ==
    Gt(basicInfo.change24h, Num(20)) /\ Gt(basicInfo.volume24h, Num(10000))

generateIntelligentRecommendation(data, riskLevel) ==
    IF riskLevel = "VERY_HIGH" THEN "STRONG_SELL"
    ELSE IF /\ Len(data.tradingIntelligence.entryExit) = 1
            /\ Gt(data.tradingIntelligence.entryExit[1].confidence, Num(70))
    THEN CASE data.tradingIntelligence.entryExit[1].recommendation = "buy"
                -> IF riskLevel \in {"LOW", "VERY_LOW"}
                   THEN (IF IsGrowthCoin(data.basicInfo)
                         THEN "STRONG_BUY" ELSE "BUY")
                   ELSE IF riskLevel = "MEDIUM" THEN "BUY"
                   ELSE "HOLD"
           [] data.tradingIntelligence.entryExit[1].recommendation = "sell"
                -> IF riskLevel = "HIGH" THEN "STRONG_SELL" ELSE "SELL"
           [] OTHER -> "HOLD"
    ELSE CASE riskLevel = "VERY_LOW"
                -> IF IsGrowthCoin(data.basicInfo)
                   THEN "STRONG_BUY" ELSE "BUY"
           [] riskLevel = "LOW" -> "BUY"
           [] riskLevel = "MEDIUM" -> "HOLD"
           [] riskLevel = "HIGH" -> "SELL"
           [] OTHER -> "STRONG_SELL"

\* the result of processIntelligenceData but for its factors, which are
\* the enriched scorers of group "score"
IntelligentResult(data, rugPull, risk) ==
    [recommendation |-> generateIntelligentRecommendation(data, risk.riskLevel),
     riskLevel |-> risk.riskLevel,
     confidence |-> risk.confidence,
     rugPullAnalysis |-> rugPull]

\* createEnhancedRugPullAnalysis throws when data has no holderAnalysis
processIntelligenceData(data) ==
    IF Len(createEnhancedRugPullAnalysis(data)) = 0 THEN [threw |-> TRUE]
    ELSE IntelligentResult(data, createEnhancedRugPullAnalysis(data)[1],
                           calculateIntelligentRiskLevel(data))

\* ---- the inputs ----

\* intelligence payloads with every section the summary reads
IntelligenceData ==
    {[DefaultData EXCEPT !.riskAssessment.overallRiskScore = s,
                         !.holderAnalysis = h,
                         !.tradingIntelligence.entryExit = e,
                         !.tradingIntelligence.marketPsychology = p,
                         !.basicInfo.change24h = g[1],
                         !.basicInfo.volume24h = g[2]] :
        s \in {NaN, Num(0), Num(40), Num(50), Num(70), Num(90)},
        h \in {<<>>}
              \cup {<<[topHolderPercentage |-> Num(60),
                       top5HolderPercentage |-> Num(90),
                       holderBehavior |-> b, concentrationRisk |-> r]>> :
                      b \in HolderBehaviors, r \in {"high", "low"}},
        e \in {<<>>,
               <<[confidence |-> Num(95), currentPosition |-> "oversold",
                  recommendation |-> "buy"]>>,
               <<[confidence |-> Num(95), currentPosition |-> "overbought",
                  recommendation |-> "sell"]>>,
               <<[confidence |-> Num(50), currentPosition |-> "neutral",
                  recommendation |-> "wait"]>>},
        p \in {<<>>,
               <<[sentiment |-> "extreme_fear", buyPressure |-> Num(100),
                  sellPressure |-> Num(0)]>>,
               <<[sentiment |-> "extreme_greed", buyPressure |-> Num(0),
                  sellPressure |-> Num(100)]>>},
        g \in {<<Num(30), Num(20000)>>, <<Num(0), Num(0)>>}}

SuspiciousScores == {0, 30, 40, 60, 69, 70, 89, 90, 100}

\* the factor scores and the suspicious score that analyzeCoin passes on
ScoreSets ==
    [technical : {Num(0), Num(20), Num(50), Num(80), Num(100)},
     fundamental : {Num(0), Num(100)},
     sentiment : {Num(0), Num(50), Num(100)},
     liquidity : {Num(0), Num(50), Num(100)},
     concentration : {Num(0), Num(100)},
     suspicious : {Num(s) : s \in SuspiciousScores}]

\* the scores of the five factor scorers
FactorScores ==
    {[technical |-> Num(t), fundamental |-> Num(o), sentiment |-> Num(o),
      liquidity |-> Num(o), concentration |-> Num(o)] :
        t \in {0, 100}, o \in {0, 50, 100}}

analyzeCoinOnMutant(factors, rugPullAnalysis, suspiciousPatterns) ==
    IF suspiciousPatterns.threw THEN [threw |-> TRUE]
    ELSE [threw |-> FALSE,
          factors |-> factors,
          rugPullAnalysis |-> rugPullAnalysis,
          result |->
             analyzeCoin([technical |-> factors.technical,
                          fundamental |-> factors.fundamental,
                          sentiment |-> factors.sentiment,
                          liquidity |-> factors.liquidity,
                          concentration |-> factors.concentration,
                          suspicious |-> Num(suspiciousPatterns.riskLevel),
                          rug |-> "low"])]

\* analyzeCoin from line 1583 on: the results of the two detectors enter
\* calculateRiskLevel, generateRecommendation and the override; a detector
\* that throws ends analyzeCoin in its catch
analyzeCoinOn(factors, rugPullAnalysis, suspiciousPatterns) ==
    IF suspiciousPatterns.threw THEN [threw |-> TRUE]
    ELSE [threw |-> FALSE,
          factors |-> factors,
          rugPullAnalysis |-> rugPullAnalysis,
          result |->
             analyzeCoin([technical |-> factors.technical,
                          fundamental |-> factors.fundamental,
                          sentiment |-> factors.sentiment,
                          liquidity |-> factors.liquidity,
                          concentration |-> factors.concentration,
                          suspicious |-> Num(suspiciousPatterns.riskLevel),
                          rug |-> rugPullAnalysis.riskLevel])]

\* analyzeCoin on one minute snapshot, whatever the factor scorers returned
AnalyzeCoinOnSnapshot ==
    /\ rugFn = "analyzeCoinResult"
    /\ rugOut = <<>>
    /\ \E factors \in FactorScores :
          rugOut' = <<analyzeCoinOn(factors,
                                    analyzeRugPullRisk(rugCandles, rugHolders),
                                    detectSuspiciousPatterns(rugCandles,
                                                             rugVolumes,
                                                             rugHolders))>>
    /\ UNCHANGED <<rugFn, rugCandles, rugVolumes, rugHolders>>

RiskLevels == {"VERY_LOW", "LOW", "MEDIUM", "HIGH", "VERY_HIGH"}

RugRiskLevels == {"low", "medium", "high", "critical"}

\* the scores with one more argument
With(scores, field, values) ==
    {[f \in DOMAIN s \cup {field} |-> IF f = field THEN v ELSE s[f]] :
        s \in scores, v \in values}

\* the days at which the clock is read
ClockReadings == {0, 1, 6, 7, 29, 30}

\* one frozen snapshot, created on day 0, and the day it was taken
Snapshots ==
    {[coin |-> DefaultCoin, createdAt |-> 0,
      holders |-> [totalHolders |-> Num(500), holders |-> <<>>],
      now |-> n] : n \in ClockReadings}

MaxRuns == 2

DecisionFns ==
    {"calculateRiskLevel", "generateRecommendation", "analyzeCoin",
     "processIntelligenceData", "scorers"}

DecisionInputs(fn) ==
    CASE fn = "calculateRiskLevel" -> ScoreSets
      [] fn = "generateRecommendation" -> With(ScoreSets, "riskLevel", RiskLevels)
      [] fn = "analyzeCoin" -> With(ScoreSets, "rug", RugRiskLevels)
      [] fn = "processIntelligenceData" -> IntelligenceData
      [] fn = "scorers" -> Snapshots

DecisionInit ==
    /\ dFn \in DecisionFns
    /\ dIn \in DecisionInputs(dFn)
    /\ dOut = <<>>
    /\ dNow = IF dFn = "scorers" THEN dIn.now ELSE 0

DecisionParked ==
    /\ dFn = "none"
    /\ dIn = <<>>
    /\ dOut = <<>>
    /\ dNow = 0

CalculateRiskLevel ==
    /\ dFn = "calculateRiskLevel"
    /\ dOut = <<>>
    /\ dOut' = <<calculateRiskLevel(dIn.technical, dIn.fundamental,
                                    dIn.sentiment, dIn.liquidity,
                                    dIn.concentration, dIn.suspicious)>>
    /\ UNCHANGED <<dFn, dIn, dNow>>

GenerateRecommendation ==
    /\ dFn = "generateRecommendation"
    /\ dOut = <<>>
    /\ dOut' = <<generateRecommendation(dIn.technical, dIn.fundamental,
                                        dIn.sentiment, dIn.liquidity,
                                        dIn.concentration, dIn.riskLevel,
                                        dIn.suspicious)>>
    /\ UNCHANGED <<dFn, dIn, dNow>>

AnalyzeCoinResult ==
    /\ dFn = "analyzeCoin"
    /\ dOut = <<>>
    /\ dOut' = <<analyzeCoin(dIn)>>
    /\ UNCHANGED <<dFn, dIn, dNow>>

ProcessIntelligenceData ==
    /\ dFn = "processIntelligenceData"
    /\ dOut = <<>>
    /\ dOut' = <<processIntelligenceData(dIn)>>
    /\ UNCHANGED <<dFn, dIn, dNow>>

\* a run of analyzeCoin on the snapshot reaches line 1582: analyzeFundamental
\* reads Date.now()
RunAnalyzeFundamental ==
    /\ dFn = "scorers"
    /\ Len(dOut) < MaxRuns
    /\ \A i \in 1..Len(dOut) : dOut[i].returned
    /\ dOut' = Append(dOut,
                      [fundamental |->
                          analyzeFundamental(AgedAt(dIn.coin, dIn.createdAt,
                                                    dNow),
                                             TopCoinSymbols, <<>>),
                       warnings |-> <<>>,
                       returned |-> FALSE])
    /\ UNCHANGED <<dFn, dIn, dNow>>

\* the run reaches line 1635: generateWarnings reads Date.now(), and the
\* result is returned
RunGenerateWarnings ==
    /\ dFn = "scorers"
    /\ Len(dOut) > 0
    /\ ~dOut[Len(dOut)].returned
    /\ dOut' = [dOut EXCEPT ![Len(dOut)] =
                  [@ EXCEPT !.warnings =
                                generateWarnings(AgedAt(dIn.coin, dIn.createdAt,
                                                        dNow),
                                                 dIn.holders,
                                                 [warnings |-> <<>>],
                                                 [risks |-> <<>>]),
                            !.returned = TRUE]]
    /\ UNCHANGED <<dFn, dIn, dNow>>

\* time passes
Tick ==
    /\ dFn = "scorers"
    /\ \E later \in ClockReadings :
          /\ later > dNow
          /\ dNow' = later
    /\ UNCHANGED <<dFn, dIn, dOut>>

-----------------------------------------------------------------------------
(* Group "server": fetchRugplayData(endpoint, apiKey, retries, timeout) of *)
(* the analysis endpoint.  An answer is "ok", "client" (a 4xx status),     *)
(* "server" (any other status that is not ok) or "rejected" (fetch         *)
(* rejects: transport failure or the abort of the timeout).                *)

\* retries = 3
DefaultRetries == 3

ServerInit ==
    /\ fRetries \in 1..DefaultRetries
    /\ fI = 0
    /\ fPc = "fetch"
    /\ fSeen = <<>>
    /\ fResult = "pending"

ServerParked ==
    /\ fRetries = 0
    /\ fI = 0
    /\ fPc = "done"
    /\ fSeen = <<>>
    /\ fResult = "pending"

\* the catch block: the error is thrown on from the last attempt only
Caught(thrown) ==
    IF fI = fRetries - 1
    THEN fPc' = "done" /\ fResult' = thrown
    ELSE fPc' = "wait" /\ fResult' = fResult

\* response.ok: return response.json()
FetchOk ==
    /\ fPc = "fetch"
    /\ fSeen' = Append(fSeen, "ok")
    /\ fPc' = "done"
    /\ fResult' = "returned"
    /\ UNCHANGED <<fRetries, fI>>

\* a 4xx status: the Error is thrown inside the try block
FetchClientError ==
    /\ fPc = "fetch"
    /\ fSeen' = Append(fSeen, "client")
    /\ Caught("client error")
    /\ UNCHANGED <<fRetries, fI>>

\* any other status: console.warn, then the wait
FetchServerError ==
    /\ fPc = "fetch"
    /\ fSeen' = Append(fSeen, "server")
    /\ fPc' = "wait"
    /\ UNCHANGED <<fRetries, fI, fResult>>

\* fetch rejects
FetchRejects ==
    /\ fPc = "fetch"
    /\ fSeen' = Append(fSeen, "rejected")
    /\ Caught("fetch error")
    /\ UNCHANGED <<fRetries, fI>>

\* the timer of 1000 * (i + 1) ms fires; i++ and the loop test
WaitBeforeRetry ==
    /\ fPc = "wait"
    /\ fI' = fI + 1
    /\ IF fI + 1 < fRetries
       THEN fPc' = "fetch" /\ fResult' = fResult
       ELSE fPc' = "done" /\ fResult' = "failed after retries"
    /\ UNCHANGED <<fRetries, fSeen>>

-----------------------------------------------------------------------------
(* Group "cache": createApiClient(apiKey, useCache).get(endpoint, params,  *)
(* forceRefresh) and the LocalStorageCacheManager.  Time is in minutes.  A *)
(* string is the sequence of its pieces.                                   *)

\* const maxAge = 5 * 60 * 1000
MaxAgeMinutes == 5

MaxNow == 6

MaxCalls == 2

\* JSON.stringify(params || {}): a property whose value is undefined is
\* left out; params is the sequence of its <<name, value>> pairs
RECURSIVE Properties(_)
Properties(params) ==
    IF Len(params) = 0 THEN <<>>
    ELSE (IF Head(params)[2] = "undefined" THEN <<>>
          ELSE <<Head(params)[1], ":", Head(params)[2]>>)
         \o Properties(Tail(params))

Stringify(params) == <<"{">> \o Properties(params) \o <<"}">>

\* `${endpoint}_${JSON.stringify(params || {})}_${apiKey}`
CacheKey(call) ==
    <<call.endpoint, "_">> \o Stringify(call.params) \o <<"_", call.apiKey>>

\* the get calls: the client's apiKey and useCache, and endpoint and params
GetCalls ==
    {[endpoint |-> "/top", params |-> <<>>, apiKey |-> "k1",
      useCache |-> TRUE],
     [endpoint |-> "/top", params |-> <<>>, apiKey |-> "k2",
      useCache |-> TRUE],
     [endpoint |-> "/coin/A", params |-> <<<<"timeframe", "1m">>>>,
      apiKey |-> "k1", useCache |-> TRUE],
     [endpoint |-> "/top", params |-> <<<<"search", "undefined">>>>,
      apiKey |-> "k1", useCache |-> FALSE]}

CacheKeys == {CacheKey(call) : call \in GetCalls}

\* what the upstream may answer with
Payloads == {"v1", "v2"}

\* cacheManager.get(key): the parsed item or null, as a sequence
CacheGet(key) == cStore[key]

isStaleMutant(key, maxAge) ==
    IF Len(CacheGet(key)) = 0 THEN TRUE
    ELSE cNow - CacheGet(key)[1].timestamp > maxAge + 1

\* cacheManager.isStale(key, maxAge)
isStale(key, maxAge) ==
    IF Len(CacheGet(key)) = 0 THEN TRUE
    ELSE cNow - CacheGet(key)[1].timestamp > maxAge

\* useCache && !(forceRefresh === true) && !cacheManager.isStale(...) and
\* the item is there
ServesFromCache(call, forceRefresh) ==
    /\ call.useCache
    /\ ~forceRefresh
    /\ ~isStale(CacheKey(call), MaxAgeMinutes)
    /\ Len(CacheGet(CacheKey(call))) = 1

NoStep == [kind |-> "none", call |-> <<>>, forceRefresh |-> FALSE,
           data |-> "", at |-> 0]

CacheInit ==
    /\ cNow = 0
    /\ cStore = [k \in CacheKeys |-> <<>>]
    /\ cPending = {}
    /\ cCalls = 0
    /\ cLast = NoStep
    /\ cStored = {}

CacheParked ==
    /\ cNow = 0
    /\ cStore = <<>>
    /\ cPending = {}
    /\ cCalls = MaxCalls
    /\ cLast = NoStep
    /\ cStored = {}

\* get returns cached.data
GetReturnsCached(call, forceRefresh) ==
    /\ cCalls < MaxCalls
    /\ ServesFromCache(call, forceRefresh)
    /\ cCalls' = cCalls + 1
    /\ cLast' = [kind |-> "cache", call |-> call,
                 forceRefresh |-> forceRefresh,
                 data |-> CacheGet(CacheKey(call))[1].data, at |-> cNow]
    /\ UNCHANGED <<cNow, cStore, cPending, cStored>>

\* get calls fetch and awaits the response
GetFetches(call, forceRefresh) ==
    /\ cCalls < MaxCalls
    /\ ~ServesFromCache(call, forceRefresh)
    /\ call \notin cPending
    /\ cCalls' = cCalls + 1
    /\ cPending' = cPending \cup {call}
    /\ cLast' = [kind |-> "fetch", call |-> call,
                 forceRefresh |-> forceRefresh, data |-> "", at |-> cNow]
    /\ UNCHANGED <<cNow, cStore, cStored>>

\* cacheManager.set(key, data)
CacheSet(key, data) ==
    cStore' = [cStore EXCEPT ![key] = <<[data |-> data, timestamp |-> cNow]>>]

\* response.ok: the data is cached when useCache holds, and returned;
\* cacheManager.set swallows a failure of localStorage.setItem
ResponseOk(call, data, setItemWorks) ==
    /\ call \in cPending
    /\ cPending' = cPending \ {call}
    /\ IF call.useCache /\ setItemWorks
       THEN /\ CacheSet(CacheKey(call), data)
            /\ cStored' = cStored \cup {[call |-> call, data |-> data,
                                         at |-> cNow]}
       ELSE UNCHANGED <<cStore, cStored>>
    /\ cLast' = [kind |-> "response", call |-> call, forceRefresh |-> FALSE,
                 data |-> data, at |-> cNow]
    /\ UNCHANGED <<cNow, cCalls>>

\* !response.ok, or fetch rejects: get throws
ResponseFails(call) ==
    /\ call \in cPending
    /\ cPending' = cPending \ {call}
    /\ cLast' = [kind |-> "error", call |-> call, forceRefresh |-> FALSE,
                 data |-> "", at |-> cNow]
    /\ UNCHANGED <<cNow, cStore, cCalls, cStored>>

\* cacheManager.clear()
CacheClear ==
    /\ \E k \in CacheKeys : Len(cStore[k]) = 1
    /\ cStore' = [k \in CacheKeys |-> <<>>]
    /\ cLast' = NoStep
    /\ UNCHANGED <<cNow, cPending, cCalls, cStored>>

\* time passes
CacheTick ==
    /\ \E minutes \in {1, MaxAgeMinutes} :
          /\ cNow + minutes <= MaxNow
          /\ cNow' = cNow + minutes
    /\ UNCHANGED <<cStore, cPending, cCalls, cLast, cStored>>

-----------------------------------------------------------------------------
(* Group "monitor": createMonitoringStore.  A coin is [symbol,             *)
(* currentPrice]; currentPrice 0 stands for a coin not yet updated.  The   *)
(* callbacks of monitoredCoins.update run to their end without yielding,   *)
(* so each is one step; performCoinUpdate yields at its await of get.      *)

Symbols == {"A", "B", "C"}

FetchedPrices == {1, 2}

MaxInFlight == 2

\* coins.findIndex(c => c.symbol === symbol), 0 for -1
FindIndex(coins, symbol) ==
    IF \E i \in 1..Len(coins) : coins[i].symbol = symbol
    THEN CHOOSE i \in 1..Len(coins) :
            /\ coins[i].symbol = symbol
            /\ \A j \in 1..(i - 1) : coins[j].symbol # symbol
    ELSE 0

\* coins.filter(c => c.symbol !== symbol)
RECURSIVE WithoutSymbol(_, _)
WithoutSymbol(coins, symbol) ==
    IF Len(coins) = 0 THEN <<>>
    ELSE (IF Head(coins).symbol # symbol THEN <<Head(coins)>> ELSE <<>>)
         \o WithoutSymbol(Tail(coins), symbol)

\* the callback of addCoin; the updateCoin it calls finds the value of
\* before the callback's return, which has no coin of this symbol, and
\* starts no update
addCoin(coins, symbol) ==
    IF FindIndex(coins, symbol) # 0 THEN coins
    ELSE Append(coins, [symbol |-> symbol, currentPrice |-> 0])

coinUpdatedMutant(coins, symbol, currentPrice) ==
    IF FindIndex(coins, symbol) = 0
    THEN Append(coins, [symbol |-> symbol, currentPrice |-> currentPrice])
    ELSE [coins EXCEPT ![FindIndex(coins, symbol)].currentPrice = currentPrice]

\* the callback of performCoinUpdate after get has answered
coinUpdated(coins, symbol, currentPrice) ==
    IF FindIndex(coins, symbol) = 0 THEN coins
    ELSE [coins EXCEPT ![FindIndex(coins, symbol)].currentPrice = currentPrice]

MonitorInit ==
    /\ monitoredCoins = <<>>
    /\ mSaved = <<>>
    /\ mInFlight = [s \in Symbols |-> 0]
    /\ mWanted = {}
    /\ mLast = <<"none", "">>

MonitorParked ==
    /\ monitoredCoins = <<>>
    /\ mSaved = <<>>
    /\ mInFlight = <<>>
    /\ mWanted = {}
    /\ mLast = <<"none", "">>

\* addCoin(symbol, ...): an existing coin leaves the value and the storage
AddCoin(symbol) ==
    /\ monitoredCoins' = addCoin(monitoredCoins, symbol)
    /\ mSaved' = IF FindIndex(monitoredCoins, symbol) # 0 THEN mSaved
                 ELSE addCoin(monitoredCoins, symbol)
    /\ mWanted' = mWanted \cup {symbol}
    /\ mLast' = <<"addCoin", symbol>>
    /\ UNCHANGED mInFlight

\* removeCoin(symbol)
RemoveCoin(symbol) ==
    /\ monitoredCoins' = WithoutSymbol(monitoredCoins, symbol)
    /\ mSaved' = WithoutSymbol(monitoredCoins, symbol)
    /\ mWanted' = mWanted \ {symbol}
    /\ mLast' = <<"removeCoin", symbol>>
    /\ UNCHANGED mInFlight

\* updateCoin(symbol, ...): a monitored coin starts performCoinUpdate, which
\* runs up to its await
UpdateCoin(symbol) ==
    /\ FindIndex(monitoredCoins, symbol) # 0
    /\ mInFlight[symbol] < MaxInFlight
    /\ mInFlight' = [mInFlight EXCEPT ![symbol] = @ + 1]
    /\ mLast' = <<"updateCoin", symbol>>
    /\ UNCHANGED <<monitoredCoins, mSaved, mWanted>>

\* performCoinUpdate resumes with the coin data
PerformCoinUpdateCompletes(symbol, currentPrice) ==
    /\ mInFlight[symbol] > 0
    /\ mInFlight' = [mInFlight EXCEPT ![symbol] = @ - 1]
    /\ monitoredCoins' = coinUpdated(monitoredCoins, symbol, currentPrice)
    /\ mSaved' = IF FindIndex(monitoredCoins, symbol) = 0 THEN mSaved
                 ELSE coinUpdated(monitoredCoins, symbol, currentPrice)
    /\ mLast' = <<"completed", symbol>>
    /\ UNCHANGED mWanted

\* get rejects: performCoinUpdate logs the error
PerformCoinUpdateFails(symbol) ==
    /\ mInFlight[symbol] > 0
    /\ mInFlight' = [mInFlight EXCEPT ![symbol] = @ - 1]
    /\ mLast' = <<"failed", symbol>>
    /\ UNCHANGED <<monitoredCoins, mSaved, mWanted>>

-----------------------------------------------------------------------------
(* Claims about the retry layer *)

RetryTerminated == rpc \in {"resolved", "rejected"}

AlwaysFailsWith(s) == rOp = "raw" /\ rAlways /\ rUpstream = Http(s)

\* C1: an operation that always fails with status 500 is invoked exactly
\* maxRetries+1 times and then the failure is raised; one that always fails
\* with 404 is invoked exactly once; the number of invocations never exceeds
\* maxRetries+1 and every retryWithBackoff call terminates.
C1_RetryBound ==
    /\ [](rInvocations <= maxRetries + 1)
    /\ [](AlwaysFailsWith(500) /\ RetryTerminated
            => rpc = "rejected" /\ rInvocations = maxRetries + 1)
    /\ [](AlwaysFailsWith(404) /\ rInvocations >= 1
            => rInvocations = 1 /\ rpc \in {"caught", "rejected"})
    /\ <>RetryTerminated

C1_Witness ==
    /\ AlwaysFailsWith(500)
    /\ rpc = "rejected"
    /\ rInvocations = maxRetries + 1
    /\ Len(rDelays) = maxRetries

\* C2: fetchWithRetry (retryWithBackoff around createApiClient.get) retries a
\* failed call iff the failure is server-class (500-599) or transport-level,
\* while the retry budget lasts; a client-class failure is raised at once.
C2_RetriesTransientFailures ==
    rOp = "apiClient" /\ rpc = "rejected"
        => /\ (IsServerClass(rUpstream) \/ IsTransport(rUpstream))
                => rInvocations = maxRetries + 1
           /\ IsClientClass(rUpstream) => rInvocations = 1

\* C3: the delay waited after the n-th failed attempt is
\* min(initialDelay * backoffFactor^(n-1), maxDelay); with the configured
\* values the delays are 1000, 2000, 4000, non-decreasing and <= maxDelay.
C3_BackoffSchedule ==
    /\ Len(rDelays) <= 3
    /\ \A n \in 1..Len(rDelays) :
          /\ rDelays[n] = Min(initialDelay * Pow(backoffFactor, n - 1), maxDelay)
          /\ rDelays[n] = <<1000, 2000, 4000>>[n]
          /\ rDelays[n] <= maxDelay
          /\ n > 1 => rDelays[n - 1] <= rDelays[n]

C3_Witness == rDelays = <<1000, 2000, 4000>>

-----------------------------------------------------------------------------
(* Claims about the calls on the instance *)

\* C4: analyzeCoin starts all of its data fetches together and scores only
\* after every one of them has succeeded; if any fetch fails for good the
\* call rejects with one error and no AnalysisResult is built from partial
\* data.
C4_JoinBeforeScoring ==
    \A c \in CallIds :
        /\ aPc[c] = "coinJoin" => Issued(aFetch[c]) = CoinFetches(aVariant)
        /\ aResult[c].kind = "baseline"
              => /\ aResult[c].basis = CoinFetches(aVariant)
                 /\ Fulfilled(aFetch[c]) = CoinFetches(aVariant)
                 /\ aPc[c] = "returned"
        /\ aVia[c] \in {"direct", "fallback"} /\ JoinRejected(aFetch[c])
              => /\ aPc[c] = "rejected"
                 /\ aResult[c].kind = "error"
                 /\ aResult[c].errors = 1
                 /\ aResult[c].basis = {}

C4_Witness ==
    \E c \in CallIds :
        /\ aEntry[c] = "analyzeCoin"
        /\ aPc[c] = "rejected"
        /\ Cardinality(Fulfilled(aFetch[c])) >= 3
        /\ aResult[c].kind = "error"

\* C5: whenever the enriched-intelligence path of analyzeWithIntelligence
\* fails (non-OK response, thrown fetch or parse error, error while the
\* enriched payload is processed) the call yields what the baseline
\* analyzeCoin yields, and the enriched failure is never given to the caller.
C5_SilentFallback ==
    \A c \in CallIds :
        aEntry[c] = "analyzeWithIntelligence"
            => /\ aResult[c].origin # "enrichedProcessing"
               /\ aVia[c] = "fallback" /\ aPc[c] = "returned"
                     => aResult[c].kind = "baseline"

\* C6: during an analysis no instance field is written with data of the
\* call, so nothing of one call is left on the instance for another call.
C6_NoInstanceWrites == minuteData = InitialMinuteData

-----------------------------------------------------------------------------
(* Claims about the indicators *)

StrictlyIncreasing(s) == \A i \in 1..(Len(s) - 1) : s[i] < s[i + 1]

\* C8: calculateRSI returns a value in [0,100] for every price series; it
\* returns 50 when the series has fewer than period+1 points and 100 for
\* every strictly increasing series of at least period+1 points.
C8_RsiRange ==
    rsiOut.done
        => /\ Ge(rsiOut.value, Num(0)) /\ Le(rsiOut.value, Num(100))
           /\ Len(rsiPrices) < rsiPeriod + 1 => rsiOut.value = Num(50)
           /\ Len(rsiPrices) >= rsiPeriod + 1 /\ StrictlyIncreasing(rsiPrices)
                 => rsiOut.value = Num(100)

C8_Witness ==
    /\ rsiOut.done
    /\ rsiPeriod = DefaultPeriod
    /\ Len(rsiPrices) = DefaultPeriod + 1
    /\ StrictlyIncreasing(rsiPrices)
    /\ rsiOut.value = Num(100)

-----------------------------------------------------------------------------
(* Claims about the rug-pull detectors *)

RugReturned(fn) == rugFn = fn /\ Len(rugOut) = 1

\* 30 bars with an all-time high of 1.00, a last close of 0.05 and the last
\* 5 volumes equal to 0
ThirtyBarFall ==
    /\ Len(rugCandles) = 30
    /\ \A i \in 1..30 : rugCandles[i].high <= 100
    /\ \E i \in 1..30 : rugCandles[i].high = 100
    /\ rugCandles[30].close = 5
    /\ \A i \in 26..30 : rugCandles[i].volume = 0

\* C9: whenever the dead-coin check is true analyzeRugPullRisk returns the
\* fixed result overallRisk 100, riskLevel critical, with the one indicator
\* 'Rug Pull'; a 30-bar fall from 1.00 to 0.05 whose last 5 volumes are 0
\* yields critical and 100.
C9_DeadCoinShortCircuit ==
    RugReturned("analyzeRugPullRisk")
        => /\ isRugPulled(rugCandles, Volumes(rugCandles))
                 => /\ rugOut[1].overallRisk = 100
                    /\ rugOut[1].riskLevel = "critical"
                    /\ rugOut[1].indicators = <<"Rug Pull">>
           /\ ThirtyBarFall
                 => /\ rugOut[1].overallRisk = 100
                    /\ rugOut[1].riskLevel = "critical"

C9_Witness ==
    /\ RugReturned("analyzeRugPullRisk")
    /\ ThirtyBarFall
    /\ Len(rugHolders) > 0
    /\ rugOut[1].overallRisk = 100
    /\ rugOut[1].indicators = <<"Rug Pull">>

\* the moves between consecutive bars of the series, in percent
BarMoves(candles) ==
    [i \in 1..(Len(candles) - 1) |->
        PercentChange(candles[i + 1].close, candles[i].close)]

\* the drop of the last close from the highest high, in percent
DropFromHigh(candles) ==
    IF Len(candles) = 0 THEN NaN
    ELSE Mul(Div(Sub(MathMax([i \in 1..Len(candles) |-> Num(candles[i].high)]),
                     Num(candles[Len(candles)].close)),
                 MathMax([i \in 1..Len(candles) |-> Num(candles[i].high)])),
             Num(100))

RecentVolumeIsZero(volumes) == StrictEq(Average(LastN(volumes, 5)), Num(0))

VolumeDownBy95(volumes) ==
    Gt(Mul(Div(Sub(Average(volumes), Average(LastN(volumes, 5))),
               Average(volumes)), Num(100)),
       Num(95))

AllFlat(moves) == \A i \in 1..Len(moves) : Lt(JsAbs(moves[i]), Fin(1, 10))

NoneRising(moves) == \A i \in 1..Len(moves) : ~Gt(moves[i], Fin(1, 10))

\* condition (a) of the dead-coin check
DeadByCollapse(candles, volumes) ==
    /\ Gt(DropFromHigh(candles), Num(90))
    /\ RecentVolumeIsZero(volumes) \/ VolumeDownBy95(volumes)

\* C10 as stated: isRugPulled is true exactly when (a), or (b) a drop > 70%
\* with each of the last 5 bar-to-bar moves flat and none rising, or (c)
\* zero recent volume with the last 5 moves flat; for every series length.
C10_DeadCoinConditions ==
    RugReturned("isRugPulled")
        => (rugOut[1].dead
              <=> \/ DeadByCollapse(rugCandles, rugVolumes)
                  \/ /\ Gt(DropFromHigh(rugCandles), Num(70))
                     /\ AllFlat(LastN(BarMoves(rugCandles), 5))
                     /\ NoneRising(LastN(BarMoves(rugCandles), 5))
                  \/ /\ RecentVolumeIsZero(rugVolumes)
                     /\ AllFlat(LastN(BarMoves(rugCandles), 5)))

\* C10 amended: isRugPulled is false for fewer than 2 candles; otherwise it
\* is true exactly when (a), or (b) a drop > 70% with each of the last 4
\* bar-to-bar moves flat and none of the last 5 rising beyond 0.1%, or (c)
\* zero recent volume with the last 4 moves flat.
C10_DeadCoinConditionsAmended ==
    RugReturned("isRugPulled")
        => (rugOut[1].dead
              <=> /\ Len(rugCandles) >= 2
                  /\ \/ DeadByCollapse(rugCandles, rugVolumes)
                     \/ /\ Gt(DropFromHigh(rugCandles), Num(70))
                        /\ AllFlat(LastN(BarMoves(LastN(rugCandles, 30)), 4))
                        /\ NoneRising(LastN(BarMoves(LastN(rugCandles, 30)), 5))
                     \/ /\ RecentVolumeIsZero(rugVolumes)
                        /\ AllFlat(LastN(BarMoves(LastN(rugCandles, 30)), 4)))

C10_Witness ==
    /\ RugReturned("isRugPulled")
    /\ rugOut[1].dead
    /\ Len(rugCandles) >= 6
    /\ ~DeadByCollapse(rugCandles, rugVolumes)
    /\ ~AllFlat(LastN(BarMoves(rugCandles), 5))

\* the indicators analyzeRugPullRisk emits for a coin that is not dead
EmittedIndicators ==
    PriceIndicators(LastN(rugCandles, 30)) \o VolumeIndicators(rugCandles)
        \o ConcentrationIndicators(rugHolders)

\* result reports the indicators emitted, their capped sum and its band
IsCappedSumOf(result, emitted) ==
    /\ result.indicators = [i \in 1..Len(emitted) |-> emitted[i].name]
    /\ result.overallRisk =
          Min(100, Sum([i \in 1..Len(emitted) |-> emitted[i].weight]))
    /\ result.riskLevel = "critical" <=> result.overallRisk >= 70
    /\ result.riskLevel = "high"
          <=> result.overallRisk >= 50 /\ result.overallRisk < 70
    /\ result.riskLevel = "medium"
          <=> result.overallRisk >= 30 /\ result.overallRisk < 50
    /\ result.riskLevel = "low" <=> result.overallRisk < 30
    /\ result.suggestedAction =
          (CASE result.riskLevel = "critical" -> "Trading not recommended"
             [] result.riskLevel = "high" -> "Exercise extreme caution"
             [] result.riskLevel = "medium" -> "Monitor closely"
             [] result.riskLevel = "low" -> "Standard trading risks apply")

\* C11: for a coin that is not dead analyzeRugPullRisk returns overallRisk =
\* min(100, sum of the weights of the indicators it emitted), and riskLevel
\* follows from overallRisk alone: critical iff >= 70, high iff in [50,70),
\* medium iff in [30,50), low iff < 30, each with its fixed suggested action.
C11_RiskIsCappedSum ==
    RugReturned("analyzeRugPullRisk")
      /\ ~isRugPulled(rugCandles, Volumes(rugCandles))
        => IsCappedSumOf(rugOut[1], EmittedIndicators)

\* a coin that is not dead whose weights add up to more than 100
C11_Witness ==
    /\ RugReturned("analyzeRugPullRisk")
    /\ ~isRugPulled(rugCandles, Volumes(rugCandles))
    /\ Len(rugOut[1].indicators) >= 3
    /\ rugOut[1].overallRisk = 100
    /\ Sum([i \in 1..Len(EmittedIndicators) |-> EmittedIndicators[i].weight])
          > 100

\* the sum of the weights that the claim assigns to the bar moves, to the
\* volumes and to the holder balances
SuspiciousWeights(moves, volumes, balances) ==
    (IF Gt(MathMax(moves), Num(500)) THEN 60
     ELSE IF Gt(MathMax(moves), Num(200)) THEN 40
     ELSE 0)
    + (IF Lt(MathMin(moves), Num(-30)) THEN 50 ELSE 0)
    + (IF volumes[Len(volumes)] = 0 THEN 70
       ELSE IF Lt(Num(volumes[Len(volumes)]),
                  Div(Average(LastN(volumes, 30)), Num(10))) THEN 40
       ELSE 0)
    + (IF Len(balances) = 0 THEN 0
       ELSE IF balances[1] * 100 > 90 * Sum(balances) THEN 80
       ELSE IF balances[1] * 100 > 50 * Sum(balances) THEN 60
       ELSE 0)
    + (IF /\ \E i \in 1..Len(balances) :
                balances[i] * 100 > 80 * Sum(balances)
          /\ Gt(MathMax(moves), Num(100))
          /\ Lt(MathMin(moves), Num(-20))
       THEN 90 ELSE 0)

C13_SameDeadCheck ==
    rugFn = "analyzeCoin" /\ Len(rugOut) = 2
        => (rugOut[1].indicators = <<"Rug Pull">>
              <=> rugOut[2].patterns = <<"Dead coin detected">>)

\* C21: on sparse or degenerate input (no candles, no volumes, no holders,
\* zero denominators) no detector raises: detectSuspiciousPatterns returns
\* a result for every snapshot, also within a pass of analyzeCoin.
C21_DetectorsDoNotRaise ==
    /\ RugReturned("detectSuspiciousPatterns") => ~rugOut[1].threw
    /\ rugFn = "analyzeCoin" /\ Len(rugOut) = 2 => ~rugOut[2].threw

\* the pump phase and the dump phase as stated: a bar > 10 starts the pump
\* and bars > 5 continue it; after it a bar < -10 starts the dump and bars
\* < -5 continue it; each total is the sum of all bars of its phase
RECURSIVE StatedPhases(_, _, _)
StatedPhases(priceChanges, i, st) ==
    IF i > Len(priceChanges) THEN st
    ELSE StatedPhases(priceChanges, i + 1,
            IF ~st.pumpPhase /\ Gt(priceChanges[i], Num(10))
            THEN [st EXCEPT !.pumpPhase = TRUE, !.totalPump = priceChanges[i]]
            ELSE IF /\ st.pumpPhase /\ ~st.dumpPhase
                    /\ Gt(priceChanges[i], Num(5))
            THEN [st EXCEPT !.totalPump = Add(@, priceChanges[i])]
            ELSE IF /\ st.pumpPhase /\ ~st.dumpPhase
                    /\ Lt(priceChanges[i], Num(-10))
            THEN [st EXCEPT !.dumpPhase = TRUE, !.totalDump = priceChanges[i]]
            ELSE IF st.dumpPhase /\ Lt(priceChanges[i], Num(-5))
            THEN [st EXCEPT !.totalDump = Add(@, priceChanges[i])]
            ELSE st)

StatedPumpAndDump(st) ==
    /\ st.pumpPhase
    /\ st.dumpPhase
    /\ Gt(st.totalPump, Num(50))
    /\ Lt(st.totalDump, Num(-30))

HasIndicator(result, name) ==
    \E i \in 1..Len(result.indicators) : result.indicators[i] = name

\* the stated price indicator of the bar moves
StatedPriceIndicator(result, moves, fires) ==
    /\ HasIndicator(result, "Pump and Dump") <=> fires
    /\ HasIndicator(result, "Suspicious Pump")
          <=> ~fires /\ Gt(MathMax(moves), Num(100))
    /\ HasIndicator(result, "Price Drop")
          <=> /\ ~fires
              /\ ~Gt(MathMax(moves), Num(100))
              /\ Lt(MathMin(moves), Num(-30))

\* C24: analyzeRugPullRisk reports 'Pump and Dump' exactly when over the
\* last 30 bars a pump phase with cumulative rise > 50% is followed by a
\* dump phase with cumulative fall below -30%, the fall being the sum of all
\* bars of the dump phase; only otherwise a standalone pump > 100% or, failing
\* that, a standalone drop below -30% is reported.
C24_PumpAndDumpFires ==
    RugReturned("analyzeRugPullRisk")
    /\ ~isRugPulled(rugCandles, Volumes(rugCandles))
    /\ Len(rugCandles) > 0
    => StatedPriceIndicator(
          rugOut[1], BarMoves(LastN(rugCandles, 30)),
          StatedPumpAndDump(
              StatedPhases(BarMoves(LastN(rugCandles, 30)), 1, NoPhase)))

-----------------------------------------------------------------------------
(* Claims about the scores *)

\* x is a number of the interval [0,100]
InRange(x) == Ge(x, Num(0)) /\ Le(x, Num(100))

\* C7: every factor score of the baseline and of the enriched scorers, the
\* rug-pull overallRisk and the suspicious-pattern risk score that a scorer
\* returns lie in [0,100], whatever the inputs.
C7_ScoresInRange ==
    /\ Len(scOut) = 1
          => InRange(IF scFn = "createEnhancedRugPullAnalysis"
                     THEN scOut[1].overallRisk
                     ELSE scOut[1].score)
    /\ RugReturned("analyzeRugPullRisk") => rugOut[1].overallRisk \in 0..100
    /\ RugReturned("detectSuspiciousPatterns") /\ ~rugOut[1].threw
          => rugOut[1].riskLevel \in 0..100

Scored(fn) == scFn = fn /\ Len(scOut) = 1 /\ ~scThrew

\* some entry of risks is one of the texts
Names(risks, texts) == \E i \in 1..Len(risks) : risks[i] \in texts

\* the snapshot with top holder 95%, top five 98% and 8 holders in all
ConcentratedSnapshot(holders) ==
    /\ Len(holders.holders) > 0
    /\ Top5Percentage(holders.holders) = Num(98)
    /\ Num(holders.holders[1] * 100) = Mul(Num(95), Num(Sum(holders.holders)))
    /\ holders.totalHolders = Num(8)

\* C22: the concentration scorer of either variant gives the snapshot with
\* top holder 95%, top five 98% and 8 holders a score <= 15, with risks
\* that name the extreme concentration and the very few total holders.
C22_ConcentratedSnapshotScore ==
    /\ Scored("analyzeConcentration") \/ Scored("analyzeConcentrationBaseline")
    /\ ConcentratedSnapshot(scIn)
    => /\ Le(scOut[1].score, Num(15))
       /\ Names(scOut[1].risks,
                {"Extreme concentration - single holder owns >80%",
                 "Extreme concentration - top 5 holders own >90%",
                 "Extreme concentration - top 5 holders own >95%"})
       /\ Names(scOut[1].risks, {"Very few total holders"})

\* the same of the scorer of the first class alone
BaselineConcentratedSnapshotScore ==
    Scored("analyzeConcentrationBaseline") /\ ConcentratedSnapshot(scIn)
    => /\ Le(scOut[1].score, Num(15))
       /\ Names(scOut[1].risks,
                {"Extreme concentration - single holder owns >80%"})
       /\ Names(scOut[1].risks, {"Very few total holders"})

\* the coin of age 2 days, rank 75 by market cap, volume / marketCap 0.002
YoungThinlyTradedCoin(coin) ==
    /\ coin.ageInDays = Num(2)
    /\ MarketCapRank(TopCoinSymbols, coin.symbol) = 75
    /\ Div(coin.volume24h, coin.marketCap) = Fin(2, 1000)

\* C23: analyzeFundamental gives a coin of age 2 days, rank 75 and
\* volume / marketCap 0.002 a score < 40 whatever its listed flag and
\* supply figures are, with a new-coin signal and a low-trading-volume
\* signal.
C23_YoungCoinScoresLow ==
    Scored("analyzeFundamental") /\ YoungThinlyTradedCoin(scIn)
    => /\ Lt(scOut[1].score, Num(40))
       /\ Names(scOut[1].signals, {"Very new coin - proceed with caution"})
       /\ Names(scOut[1].signals, {"Low trading volume - liquidity concerns"})

\* the most favourable such coin: listed, all tokens in circulation
C23_Witness ==
    /\ Scored("analyzeFundamental")
    /\ YoungThinlyTradedCoin(scIn)
    /\ scIn.isListed
    /\ scIn.circulatingSupply = scIn.initialSupply
    /\ scOut[1].score = Num(20)

-----------------------------------------------------------------------------
(* Claims about the risk level and the recommendation *)

Decided(fn) == dFn = fn /\ Len(dOut) = 1

\* C14: calculateRiskLevel returns exactly {VERY_HIGH, confidence 95} when
\* the suspicious-pattern score is >= 90 and exactly {HIGH, confidence 85}
\* when it is in [70, 90), whatever the five factor scores are.
C14_SuspiciousOverridesRisk ==
    Decided("calculateRiskLevel")
        => /\ Ge(dIn.suspicious, Num(90))
                 => dOut[1] = [riskLevel |-> "VERY_HIGH",
                               confidence |-> Confidence(95)]
           /\ Ge(dIn.suspicious, Num(70)) /\ Lt(dIn.suspicious, Num(90))
                 => dOut[1] = [riskLevel |-> "HIGH",
                               confidence |-> Confidence(85)]

\* the score is exactly 90 (resp. 70) while the factor scores alone would
\* give the safest level
C14_Witness ==
    /\ Decided("calculateRiskLevel")
    /\ dIn.suspicious \in {Num(70), Num(90)}
    /\ dIn.technical = Num(100)
    /\ dIn.liquidity = Num(100)
    /\ dIn.sentiment = Num(100)
    /\ dOut[1].riskLevel \in {"HIGH", "VERY_HIGH"}

\* how safe a risk level is
Safety(riskLevel) ==
    CASE riskLevel = "VERY_LOW" -> 4
      [] riskLevel = "LOW" -> 3
      [] riskLevel = "MEDIUM" -> 2
      [] riskLevel = "HIGH" -> 1
      [] riskLevel = "VERY_HIGH" -> 0

\* the blend in which the suspicious score is inverted
InvertedBlend(in) ==
    Add(Add(Add(Add(Add(Mul(in.technical, Fin(25, 100)),
                        Mul(in.sentiment, Fin(15, 100))),
                    Mul(in.liquidity, Fin(15, 100))),
                Mul(in.fundamental, Fin(5, 100))),
            Mul(in.concentration, Fin(5, 100))),
        Mul(Sub(Num(100), in.suspicious), Fin(35, 100)))

\* the risk level of the same factor scores with another suspicious score
RiskLevelWith(in, suspicious) ==
    calculateRiskLevel(in.technical, in.fundamental, in.sentiment,
                       in.liquidity, in.concentration,
                       suspicious).riskLevel

\* C15: for a suspicious score below 70 the risk level is the band
\* (VERY_LOW >= 80, LOW >= 65, MEDIUM >= 50, HIGH >= 35, else VERY_HIGH) of
\* 0.25*technical + 0.15*sentiment + 0.15*liquidity + 0.05*fundamental +
\* 0.05*concentration + 0.35*(100 - suspicious), and with the factor
\* scores fixed a higher suspicious score never gives a safer level.
C15_InvertedSuspiciousBlend ==
    Decided("calculateRiskLevel") /\ Lt(dIn.suspicious, Num(70))
        => /\ dOut[1].riskLevel = RiskLevelOf(InvertedBlend(dIn))
           /\ \A s \in SuspiciousScores :
                 Gt(Num(s), dIn.suspicious)
                     => Safety(RiskLevelWith(dIn, Num(s)))
                            <= Safety(dOut[1].riskLevel)

\* a confidence within [70, 95]
ConfidenceInRange(confidence) ==
    /\ confidence.k = "fin"
    /\ Ge(confidence, Confidence(95))
    /\ Le(confidence, Confidence(70))

VarianceOf(in) ==
    Variance(<<in.technical, in.liquidity, Sub(Num(100), in.suspicious)>>)

\* the three scores the variance is taken of, in every other combination
OtherIndicators(in) ==
    {[in EXCEPT !.technical = t, !.liquidity = l, !.suspicious = s] :
        t \in {x.technical : x \in ScoreSets},
        l \in {x.liquidity : x \in ScoreSets},
        s \in {Num(x) : x \in {y \in SuspiciousScores : y < 70}}}

\* no input of at least this variance gets a higher confidence
NoneMoreConfident(others, variance, confidence) ==
    \A other \in others :
        Ge(VarianceOf(other), variance)
            => Ge(calculateRiskLevel(other.technical, other.fundamental,
                                     other.sentiment, other.liquidity,
                                     other.concentration,
                                     other.suspicious).confidence,
                  confidence)

\* C16: the confidence that calculateRiskLevel returns lies in [70, 95];
\* where it is derived from the variance of {technicalScore,
\* liquidityScore, 100 - suspiciousScore} (suspicious score below 70) a
\* larger variance never gives a higher confidence; and the confidence of
\* the result of analyzeCoin lies in [70, 95].
C16_ConfidenceInRange ==
    /\ Decided("calculateRiskLevel")
          => /\ ConfidenceInRange(dOut[1].confidence)
             /\ Lt(dIn.suspicious, Num(70))
                   => NoneMoreConfident(OtherIndicators(dIn), VarianceOf(dIn),
                                        dOut[1].confidence)
    /\ Decided("analyzeCoin") => ConfidenceInRange(dOut[1].confidence)

\* a variance above 625, where only the clamp keeps the confidence at 70
C16_Witness ==
    /\ Decided("calculateRiskLevel")
    /\ Lt(dIn.suspicious, Num(70))
    /\ Gt(VarianceOf(dIn), Num(625))
    /\ dOut[1].confidence = Confidence(70)

\* 100 times the blend 0.30*technical + 0.15*sentiment + 0.15*liquidity +
\* 0.05*fundamental + 0.05*concentration + 0.30*(100 - suspicious) of
\* whole-numbered scores
BlendTimes100(in) ==
    30 * in.technical.n + 15 * in.sentiment.n + 15 * in.liquidity.n
        + 5 * in.fundamental.n + 5 * in.concentration.n
        + 30 * (100 - in.suspicious.n)

StatedRecommendation(suspicious, blendTimes100) ==
    CASE suspicious >= 90 -> "STRONG_SELL"
      [] suspicious >= 70 /\ suspicious < 90 -> "SELL"
      [] suspicious < 70 /\ blendTimes100 >= 7500 -> "STRONG_BUY"
      [] suspicious < 70 /\ blendTimes100 >= 6500 /\ blendTimes100 < 7500
            -> "BUY"
      [] suspicious < 70 /\ blendTimes100 >= 5000 /\ blendTimes100 < 6500
            -> "HOLD"
      [] suspicious < 70 /\ blendTimes100 >= 3000 /\ blendTimes100 < 5000
            -> "SELL"
      [] suspicious < 70 /\ blendTimes100 < 3000 -> "STRONG_SELL"

\* C17: generateRecommendation returns STRONG_SELL for a suspicious score
\* >= 90, SELL for one in [70, 90), and otherwise the band (STRONG_BUY >= 75,
\* BUY >= 65, HOLD >= 50, SELL >= 30, else STRONG_SELL) of the blend
\* 0.30*technical + 0.15*sentiment + 0.15*liquidity + 0.05*fundamental +
\* 0.05*concentration + 0.30*(100 - suspicious); the riskLevel argument
\* makes no difference.
C17_RecommendationBands ==
    Decided("generateRecommendation")
        => /\ dOut[1] = StatedRecommendation(dIn.suspicious.n,
                                             BlendTimes100(dIn))
           /\ \A riskLevel \in RiskLevels :
                 generateRecommendation(dIn.technical, dIn.fundamental,
                                        dIn.sentiment, dIn.liquidity,
                                        dIn.concentration, riskLevel,
                                        dIn.suspicious) = dOut[1]

\* a blend of exactly 75 recommended STRONG_BUY at the riskiest riskLevel
C17_Witness ==
    /\ Decided("generateRecommendation")
    /\ BlendTimes100(dIn) = 7500
    /\ dIn.suspicious.n < 70
    /\ dIn.riskLevel = "VERY_HIGH"
    /\ dOut[1] = "STRONG_BUY"

\* what analyzeCoin has before the override
BaseRisk(in) ==
    calculateRiskLevel(in.technical, in.fundamental, in.sentiment,
                       in.liquidity, in.concentration, in.suspicious)

\* the result is the base result but for the recommendation, the confidence
\* and a banner before the summary
Overrides(result, risk, base, recommendation, confidences, banners) ==
    /\ result.recommendation = recommendation
    /\ result.confidence \in confidences
    /\ result.summary.banner \in banners
    /\ result.summary.text
          = generateSummary(base, risk.riskLevel, risk.confidence).text
    /\ result.riskLevel = risk.riskLevel

\* the confidences min(confidence, percent)
CappedAt(confidence, percent) ==
    {IF Le(confidence, Confidence(percent))
     THEN Confidence(percent) ELSE confidence}

\* C18: the override of analyzeCoin acts on the base recommendation: with
\* rugPullAnalysis.riskLevel critical the result is STRONG_SELL with
\* confidence <= 90; with high a base other than STRONG_SELL becomes SELL
\* with confidence <= 80; with medium or low recommendation and confidence
\* are the base ones; in both override cases a banner precedes the summary.
C18_RugPullOverride ==
    Decided("analyzeCoin")
        => CASE dIn.rug = "critical"
                  -> /\ Overrides(dOut[1], BaseRisk(dIn),
                                  BaseRecommendation(dIn, BaseRisk(dIn)),
                                  "STRONG_SELL",
                                  CappedAt(BaseRisk(dIn).confidence, 90),
                                  {"DANGER: "})
                     /\ Ge(dOut[1].confidence, Confidence(90))
             [] dIn.rug = "high"
                /\ BaseRecommendation(dIn, BaseRisk(dIn)) # "STRONG_SELL"
                  -> /\ Overrides(dOut[1], BaseRisk(dIn),
                                  BaseRecommendation(dIn, BaseRisk(dIn)),
                                  "SELL",
                                  CappedAt(BaseRisk(dIn).confidence, 80),
                                  {"WARNING: "})
                     /\ Ge(dOut[1].confidence, Confidence(80))
             [] dIn.rug = "high"
                /\ BaseRecommendation(dIn, BaseRisk(dIn)) = "STRONG_SELL"
                  -> Overrides(dOut[1], BaseRisk(dIn), "STRONG_SELL",
                               "STRONG_SELL", {BaseRisk(dIn).confidence},
                               {"WARNING: "})
             [] dIn.rug \in {"medium", "low"}
                  -> Overrides(dOut[1], BaseRisk(dIn),
                               BaseRecommendation(dIn, BaseRisk(dIn)),
                               BaseRecommendation(dIn, BaseRisk(dIn)),
                               {BaseRisk(dIn).confidence}, {""})

\* a base BUY of confidence above 90 that a critical rug-pull risk turns
\* into STRONG_SELL of confidence 90
C18_Witness ==
    /\ Decided("analyzeCoin")
    /\ dIn.rug = "critical"
    /\ BaseRecommendation(dIn, BaseRisk(dIn)) = "BUY"
    /\ Lt(BaseRisk(dIn).confidence, Confidence(90))
    /\ dOut[1].recommendation = "STRONG_SELL"
    /\ dOut[1].confidence = Confidence(90)

\* the call returned an AnalysisResult
ReturnedResult(fn) == Decided(fn) /\ "recommendation" \in DOMAIN dOut[1]

\* C19: every AnalysisResult, of analyzeCoin or of processIntelligenceData,
\* whose rugPullAnalysis.riskLevel is critical recommends STRONG_SELL, and
\* one whose rugPullAnalysis.riskLevel is high recommends SELL or
\* STRONG_SELL.
C19_RugPullBoundsRecommendation ==
    ReturnedResult("analyzeCoin") \/ ReturnedResult("processIntelligenceData")
        => /\ dOut[1].rugPullAnalysis.riskLevel = "critical"
                 => dOut[1].recommendation = "STRONG_SELL"
           /\ dOut[1].rugPullAnalysis.riskLevel = "high"
                 => dOut[1].recommendation \in {"SELL", "STRONG_SELL"}

\* the same of the results of analyzeCoin alone
BaselineRugPullBoundsRecommendation ==
    ReturnedResult("analyzeCoin")
        => /\ dOut[1].rugPullAnalysis.riskLevel = "critical"
                 => dOut[1].recommendation = "STRONG_SELL"
           /\ dOut[1].rugPullAnalysis.riskLevel = "high"
                 => dOut[1].recommendation \in {"SELL", "STRONG_SELL"}

\* C20: two runs of the scoring pipeline on the same frozen snapshot, for
\* the same value of now, return identical results: time enters only as the
\* coin age, taken from the given now and not from the wall clock.
C20_SameSnapshotSameResult ==
    dFn = "scorers" /\ Len(dOut) = 2 /\ dOut[2].returned
        => dOut[1] = dOut[2]

\* the same when the wall clock stands at the given now in every read
SameResultWhileClockStands ==
    dFn = "scorers" /\ Len(dOut) = 2 /\ dOut[2].returned /\ dNow = dIn.now
        => dOut[1] = dOut[2]

-----------------------------------------------------------------------------
(* Claims about analyzeCoin on a dead coin *)

\* the snapshot of a dead coin whose volume series is that of its candles
DeadSnapshot ==
    /\ rugFn = "analyzeCoinResult"
    /\ Len(rugOut) = 1
    /\ rugVolumes = Volumes(rugCandles)
    /\ isRugPulled(rugCandles, rugVolumes)

\* C28: for a dead coin analyzeCoin returns rugPullAnalysis {overallRisk 100,
\* critical}, riskLevel VERY_HIGH, recommendation STRONG_SELL and confidence
\* exactly 90, whatever the factor scores.
C28_DeadCoinResult ==
    DeadSnapshot
        => /\ ~rugOut[1].threw
           /\ rugOut[1].rugPullAnalysis.overallRisk = 100
           /\ rugOut[1].rugPullAnalysis.riskLevel = "critical"
           /\ rugOut[1].result.riskLevel = "VERY_HIGH"
           /\ rugOut[1].result.recommendation = "STRONG_SELL"
           /\ rugOut[1].result.confidence = Confidence(90)

\* a dead coin whose five factor scores are all 100
C28_Witness ==
    /\ DeadSnapshot
    /\ \A f \in {"technical", "fundamental", "sentiment", "liquidity",
                 "concentration"} : rugOut[1].factors[f] = Num(100)
    /\ rugHolders = <<>>
    /\ rugOut[1].result.summary.banner = "DANGER: "

-----------------------------------------------------------------------------
(* Claims about the summary *)

\* C27: the summary of the result of analyzeCoin is the text of its final
\* fields: the recommendation description is the one of the final
\* recommendation and the confidence printed is the final confidence, also
\* after the rug-pull override.
C27_SummaryOfFinalFields ==
    Decided("analyzeCoin")
        => dOut[1].summary.text
             = generateSummary(dOut[1].recommendation, dOut[1].riskLevel,
                               dOut[1].confidence).text

\* without an override the summary is the text of the final fields
SummaryOfFinalFieldsWithoutOverride ==
    Decided("analyzeCoin") /\ dOut[1].summary.banner = ""
        => dOut[1].summary.text
             = generateSummary(dOut[1].recommendation, dOut[1].riskLevel,
                               dOut[1].confidence).text

-----------------------------------------------------------------------------
(* Claims about the trend rule of a timeframe *)

\* the stated rule: +10 above both averages, -10 below both
StatedTrend(data) ==
    IF Gt(data.currentPrice, data.sma20) /\ Gt(data.currentPrice, data.sma50)
    THEN 10
    ELSE IF /\ Lt(data.currentPrice, data.sma20)
            /\ Lt(data.currentPrice, data.sma50)
    THEN -10
    ELSE 0

\* the same reading with both averages at the current price
TrendFree(data) ==
    [data EXCEPT !.sma20 = data.currentPrice, !.sma50 = data.currentPrice]

TrendAdds(score, trendFree, trend) ==
    Gt(trendFree, Num(0)) /\ Lt(trendFree, Num(100))
    /\ Ge(Add(trendFree, Num(trend)), Num(0))
    /\ Le(Add(trendFree, Num(trend)), Num(100))
        => StrictEq(score, Add(trendFree, Num(trend)))

\* C26: the score of a timeframe with candles is its score without a trend
\* plus 10 exactly when the current price is above both SMA20 and SMA50, and
\* minus 10 exactly when it is below both (wherever no clamp applies); a
\* timeframe with no candles scores 50.
C26_TrendAboveOrBelowBothAverages ==
    Scored("analyzeSingleTimeframe")
        => IF Len(scIn.candlestickData) = 0
           THEN StrictEq(scOut[1].score, Num(50))
           ELSE TrendAdds(scOut[1].score,
                          analyzeSingleTimeframe(TrendFree(scIn)).score,
                          StatedTrend(scIn))

\* the blend of the three timeframes is 0.2, 0.3 and 0.5, and a timeframe
\* with no candles enters it as 50
TimeframeBlend ==
    Scored("analyzeTechnical")
        => /\ StrictEq(scOut[1].score,
                       Clamp(Div(Add(Add(Mul(analyzeSingleTimeframe(scIn[1]).score,
                                             Num(2)),
                                         Mul(analyzeSingleTimeframe(scIn[2]).score,
                                             Num(3))),
                                     Mul(analyzeSingleTimeframe(scIn[3]).score,
                                         Num(5))),
                                 Num(10))))
           /\ \A i \in 1..3 :
                 Len(scIn[i].candlestickData) = 0
                     => StrictEq(analyzeSingleTimeframe(scIn[i]).score, Num(50))

-----------------------------------------------------------------------------
(* Claims about fetchRugplayData *)

\* C25: fetchRugplayData does not retry client errors: once the upstream
\* has answered with a 4xx status no further request is made and the call
\* has thrown the client error; and never more than `retries` requests are
\* made.
C25_ClientErrorsNotRetried ==
    /\ Len(fSeen) > 0 /\ fSeen[Len(fSeen)] = "client"
          => fPc = "done" /\ fResult = "client error" /\ Len(fSeen) = 1
    /\ \A i \in 1..(Len(fSeen) - 1) : fSeen[i] # "client"
    /\ Len(fSeen) <= fRetries

\* never more than `retries` requests are made
RequestsWithinRetries == Len(fSeen) <= fRetries

-----------------------------------------------------------------------------
(* Claims about the API client cache *)

\* the value served was stored by a successful response to the same call at
\* most MaxAgeMinutes before
ServedWasStored ==
    cLast.kind = "cache"
        => \E s \in cStored :
              /\ s.call.endpoint = cLast.call.endpoint
              /\ s.call.params = cLast.call.params
              /\ s.call.apiKey = cLast.call.apiKey
              /\ s.data = cLast.data
              /\ s.at <= cLast.at
              /\ cLast.at - s.at <= MaxAgeMinutes

\* a call with forceRefresh = true is not served from the cache
ForcedCallsFetch == cLast.kind = "cache" => ~cLast.forceRefresh

\* a get that throws leaves the cache as it was
FailureKeepsCache ==
    cPending' # cPending /\ cLast'.kind = "error" => cStore' = cStore

\* C29: a value that get serves from the cache was stored by an earlier
\* successful response for the same endpoint, params and API key at most 5
\* minutes before; a call with forceRefresh = true always issues a request;
\* and a failed request leaves every cache entry unchanged.
C29_CacheServesFreshStoredValues ==
    [](ServedWasStored /\ ForcedCallsFetch) /\ [][FailureKeepsCache]_vars

\* a value served exactly 5 minutes after it was stored, after another
\* request for the same key has failed
C29_Witness ==
    /\ cLast.kind = "cache"
    /\ \E s \in cStored : s.call = cLast.call /\ cLast.at - s.at = MaxAgeMinutes
    /\ cCalls = MaxCalls

-----------------------------------------------------------------------------
(* Claims about the monitoring store *)

MonitoredSymbols == {monitoredCoins[i].symbol : i \in 1..Len(monitoredCoins)}

\* each symbol at most once, and exactly those added and not removed
HoldsExactlyTheWanted ==
    /\ \A i, j \in 1..Len(monitoredCoins) :
          monitoredCoins[i].symbol = monitoredCoins[j].symbol => i = j
    /\ MonitoredSymbols = mWanted

\* a completion for a coin no longer monitored changes nothing, and a
\* completion changes no coin of another symbol
CompletionTouchesOwnCoinOnly ==
    mLast'[1] = "completed" /\ mInFlight' # mInFlight
        => /\ Len(monitoredCoins') = Len(monitoredCoins)
           /\ \A i \in 1..Len(monitoredCoins) :
                 \/ monitoredCoins'[i] = monitoredCoins[i]
                 \/ /\ monitoredCoins[i].symbol = mLast'[2]
                    /\ monitoredCoins'[i].symbol = mLast'[2]

\* C30: under any interleaving of addCoin, removeCoin and the completions of
\* performCoinUpdate, monitoredCoins holds each symbol at most once and
\* exactly the symbols added and not removed since; the completion of an
\* update in flight for a removed coin does not add it again and alters no
\* other entry.
C30_MonitoredCoinsAreTheWanted ==
    []HoldsExactlyTheWanted /\ [][CompletionTouchesOwnCoinOnly]_vars

\* an update of a removed coin has completed while another is still in
\* flight and another coin, already updated, is monitored
C30_Witness ==
    /\ mLast[1] = "completed"
    /\ mLast[2] \notin mWanted
    /\ \E i \in 1..Len(monitoredCoins) : monitoredCoins[i].currentPrice # 0
    /\ \E s \in Symbols : mInFlight[s] > 0

-----------------------------------------------------------------------------
(* Specifications *)

ParkedExcept(g) ==
    /\ IF g = "retry" THEN TRUE ELSE RetryParked
    /\ IF g = "analyze" THEN TRUE ELSE AnalyzeParked
    /\ IF g = "rsi" THEN TRUE ELSE RsiParked
    /\ IF g = "rug" THEN TRUE ELSE RugParked
    /\ IF g = "score" THEN TRUE ELSE ScoreParked
    /\ IF g = "decision" THEN TRUE ELSE DecisionParked
    /\ IF g = "server" THEN TRUE ELSE ServerParked
    /\ IF g = "cache" THEN TRUE ELSE CacheParked
    /\ IF g = "monitor" THEN TRUE ELSE MonitorParked

UnchangedExcept(g) ==
    /\ IF g = "retry" THEN TRUE ELSE UNCHANGED retryVars
    /\ IF g = "analyze" THEN TRUE ELSE UNCHANGED analyzeVars
    /\ IF g = "rsi" THEN TRUE ELSE UNCHANGED rsiVars
    /\ IF g = "rug" THEN TRUE ELSE UNCHANGED rugVars
    /\ IF g = "score" THEN TRUE ELSE UNCHANGED scoreVars
    /\ IF g = "decision" THEN TRUE ELSE UNCHANGED decisionVars
    /\ IF g = "server" THEN TRUE ELSE UNCHANGED serverVars
    /\ IF g = "cache" THEN TRUE ELSE UNCHANGED cacheVars
    /\ IF g = "monitor" THEN TRUE ELSE UNCHANGED monitorVars

InitRetry == RetryInit /\ ParkedExcept("retry")

NextRetry ==
    \/ RetryInvoke /\ UnchangedExcept("retry")
    \/ RetryRethrow /\ UnchangedExcept("retry")
    \/ RetrySleep /\ UnchangedExcept("retry")
    \/ RetryAgain /\ UnchangedExcept("retry")

SpecRetry == InitRetry /\ [][NextRetry]_vars

\* The scheduler runs every enabled continuation and timer.
FairSpecRetry == SpecRetry /\ WF_vars(NextRetry)

\* One call on the instance.
InitAnalyze ==
    /\ AnalyzeInit
    /\ aEntry["BBB"] = "none"
    /\ ParkedExcept("analyze")

\* Two concurrent calls, for different symbols, on the same instance.
InitInstance ==
    /\ AnalyzeInit
    /\ aVariant = "retry"
    /\ \A c \in CallIds : aEntry[c] # "none"
    /\ ParkedExcept("analyze")

NextAnalyze ==
    \/ \E c \in CallIds : CallAnalyzeCoin(c) /\ UnchangedExcept("analyze")
    \/ \E c \in CallIds :
          CallAnalyzeWithIntelligence(c) /\ UnchangedExcept("analyze")
    \/ \E c \in CallIds : IntelligenceResponse(c) /\ UnchangedExcept("analyze")
    \/ \E c \in CallIds : IntelligenceJson(c) /\ UnchangedExcept("analyze")
    \/ \E c \in CallIds, f \in AllFetches :
          FetchFails(c, f) /\ UnchangedExcept("analyze")
    \/ \E c \in CallIds, f \in AllFetches :
          FetchSucceeds(c, f) /\ UnchangedExcept("analyze")

SpecAnalyze == InitAnalyze /\ [][NextAnalyze]_vars

SpecInstance == InitInstance /\ [][NextAnalyze]_vars

InitRSI == RsiInit /\ ParkedExcept("rsi")

NextRSI == CalculateRSI /\ UnchangedExcept("rsi")

SpecRSI == InitRSI /\ [][NextRSI]_vars

InitRugPull == RugInit /\ ParkedExcept("rug")

NextRugPull ==
    \/ IsRugPulled /\ UnchangedExcept("rug")
    \/ AnalyzeRugPullRisk /\ UnchangedExcept("rug")
    \/ DetectSuspiciousPatterns /\ UnchangedExcept("rug")
    \/ AnalyzeCoinDetectors /\ UnchangedExcept("rug")
    \/ AnalyzeCoinOnSnapshot /\ UnchangedExcept("rug")

SpecRugPull == InitRugPull /\ [][NextRugPull]_vars

InitScore == ScoreInit /\ ParkedExcept("score")

NextScore ==
    \/ AnalyzeSingleTimeframe /\ UnchangedExcept("score")
    \/ AnalyzeTechnical /\ UnchangedExcept("score")
    \/ AnalyzeFundamental /\ UnchangedExcept("score")
    \/ AnalyzeSentiment /\ UnchangedExcept("score")
    \/ AnalyzeLiquidity /\ UnchangedExcept("score")
    \/ AnalyzeConcentration /\ UnchangedExcept("score")
    \/ AnalyzeConcentrationBaseline /\ UnchangedExcept("score")
    \/ EnhanceTechnicalAnalysis /\ UnchangedExcept("score")
    \/ AnalyzeSentimentWithIntelligence /\ UnchangedExcept("score")
    \/ AnalyzeLiquidityWithIntelligence /\ UnchangedExcept("score")
    \/ AnalyzeConcentrationWithIntelligence /\ UnchangedExcept("score")
    \/ AnalyzeFundamentalWithIntelligence /\ UnchangedExcept("score")
    \/ CreateEnhancedRugPullAnalysis /\ UnchangedExcept("score")

SpecScore == InitScore /\ [][NextScore]_vars

InitDecision == DecisionInit /\ ParkedExcept("decision")

NextDecision ==
    \/ CalculateRiskLevel /\ UnchangedExcept("decision")
    \/ GenerateRecommendation /\ UnchangedExcept("decision")
    \/ AnalyzeCoinResult /\ UnchangedExcept("decision")
    \/ ProcessIntelligenceData /\ UnchangedExcept("decision")
    \/ RunAnalyzeFundamental /\ UnchangedExcept("decision")
    \/ RunGenerateWarnings /\ UnchangedExcept("decision")
    \/ Tick /\ UnchangedExcept("decision")

SpecDecision == InitDecision /\ [][NextDecision]_vars

InitServer == ServerInit /\ ParkedExcept("server")

NextServer ==
    \/ FetchOk /\ UnchangedExcept("server")
    \/ FetchClientError /\ UnchangedExcept("server")
    \/ FetchServerError /\ UnchangedExcept("server")
    \/ FetchRejects /\ UnchangedExcept("server")
    \/ WaitBeforeRetry /\ UnchangedExcept("server")

SpecServer == InitServer /\ [][NextServer]_vars

InitCache == CacheInit /\ ParkedExcept("cache")

NextCache ==
    \/ \E call \in GetCalls, forceRefresh \in BOOLEAN :
          GetReturnsCached(call, forceRefresh) /\ UnchangedExcept("cache")
    \/ \E call \in GetCalls, forceRefresh \in BOOLEAN :
          GetFetches(call, forceRefresh) /\ UnchangedExcept("cache")
    \/ \E call \in GetCalls, data \in Payloads, setItemWorks \in BOOLEAN :
          ResponseOk(call, data, setItemWorks) /\ UnchangedExcept("cache")
    \/ \E call \in GetCalls : ResponseFails(call) /\ UnchangedExcept("cache")
    \/ CacheClear /\ UnchangedExcept("cache")
    \/ CacheTick /\ UnchangedExcept("cache")

SpecCache == InitCache /\ [][NextCache]_vars

InitMonitor == MonitorInit /\ ParkedExcept("monitor")

NextMonitor ==
    \/ \E symbol \in Symbols : AddCoin(symbol) /\ UnchangedExcept("monitor")
    \/ \E symbol \in Symbols : RemoveCoin(symbol) /\ UnchangedExcept("monitor")
    \/ \E symbol \in Symbols : UpdateCoin(symbol) /\ UnchangedExcept("monitor")
    \/ \E symbol \in Symbols, currentPrice \in FetchedPrices :
          PerformCoinUpdateCompletes(symbol, currentPrice)
              /\ UnchangedExcept("monitor")
    \/ \E symbol \in Symbols :
          PerformCoinUpdateFails(symbol) /\ UnchangedExcept("monitor")

SpecMonitor == InitMonitor /\ [][NextMonitor]_vars

=============================================================================
